---- MODULE Spec2Model ----
(***************************************************************************)
(* GSTR-1 filing engine: decimal tax arithmetic, section generators,      *)
(* document range detection.                                               *)
(*                                                                         *)
(* Money.  The program computes with decimal.Decimal, which is exact.  A   *)
(* Decimal is modelled as a record [units, num, den] standing for          *)
(* units + num/den paise (1 paise = 0.01 rupee), 0 <= num < den, units the *)
(* floor.  Inputs are given in mills (0.001 rupee) and rates in hundredths *)
(* of a percent, so every product and half is represented exactly and no   *)
(* intermediate exceeds 32 bits.  A rounded amount (2 decimal places) is   *)
(* an integer number of paise; the float() the program applies to a        *)
(* rounded amount is one-to-one on such values and is not modelled apart.  *)
(***************************************************************************)
EXTENDS Integers, Sequences, FiniteSets, TLC

VARIABLES
    tax_args,        \* arguments of one tax split call
    tax_result,      \* what the call returned
    tax_pc,          \* "idle" | "ready" | "compute_tax" | "compute_tax_split"
    round_arg,       \* [kind, value]: the amount handed to a rounding function
    round_result,    \* the rounded amount, in paise
    round_pc,        \* "idle" | "ready" | the rounding function that ran
    range_lines,     \* the invoice lines handed to detect_ranges
    document_ranges, \* the DocumentRange list it returned
    non_sequential_docs, \* the NonSequentialDoc list it returned
    range_pc,        \* "idle" | "collect" | "detected"
    upload_lines,    \* the invoice lines stored for the upload
    gen_call,        \* [generator, use_gemini, reply]: the generate call that ran
    gstr1_complete,  \* the dict CompleteGSTR1Generator returned
    gstr1_export,    \* the GSTR1Export SchemaDriverGSTR1Generator returned
    gen_pc,          \* "idle" | "collect" | "generated" | "raised"
    split_arg,       \* the normalized document number handed to split_prefix_number
    split_result,    \* what split_prefix_number returned
    split_pc,        \* "idle" | "ready" | "split"
    canonical_fields,  \* the dictionary HeaderMatcher was built with, in its order
    header_arg,      \* the file header handed to match_header
    header_match,    \* what match_header returned
    header_pc,       \* "idle" | "ready" | "matched"
    upload_doc,      \* the upload document in the uploads collection
    apply_call,      \* the apply_mapping request in progress
    process_call,    \* the process_upload request in progress
    process_result,  \* what the last process_upload call parsed and reported
    confirmed_files, \* the filenames some apply_mapping call has stored mappings for
    invoice_lines_collection, \* the invoice_lines collection: per insert and file, the lines of that file
    gstr_exports,    \* the gstr_exports collection
    generate_response, \* the response of the last generate request
    parse_file,      \* [file_type, data_rows]: the file handed to a parser
    parse_call,      \* "none" | "parse_file_with_mapping" | "parse_tcs_sales"
    parse_lines,     \* the invoice lines the parser returned
    parse_pc         \* "idle" | "collect" | "parsed"

tax_vars == <<tax_args, tax_result, tax_pc>>

round_vars == <<round_arg, round_result, round_pc>>

range_vars == <<range_lines, document_ranges, non_sequential_docs, range_pc>>

gen_vars == <<upload_lines, gen_call, gstr1_complete, gstr1_export, gen_pc>>

split_vars == <<split_arg, split_result, split_pc>>

\* the state of file intake: header matching, upload, parsing
header_vars == <<canonical_fields, header_arg, header_match, header_pc>>

store_vars == <<invoice_lines_collection, gstr_exports, generate_response>>

server_vars ==
    <<upload_doc, apply_call, process_call, process_result, confirmed_files, store_vars>>

parse_vars == <<parse_file, parse_call, parse_lines, parse_pc>>

intake_vars == <<split_vars, header_vars, server_vars, parse_vars>>

vars == <<tax_vars, round_vars, range_vars, gen_vars, intake_vars>>

(***************************************************************************)
(* Decimal arithmetic (decimal_utils.py)                                   *)
(***************************************************************************)
ZERO == 0

TWO == 2

HUNDRED == 100

\* units of the exact product mills * (rate in 1/100 percent) / 100, per paise
RawScale == 1000 * HUNDRED

Abs(n) == IF n < 0 THEN -n ELSE n

\* a Decimal given in mills (three decimal places)
DecMills(m) == [units |-> m \div 10, num |-> m % 10, den |-> 10]

\* a Decimal that is a whole number of paise
DecPaise(c) == [units |-> c, num |-> 0, den |-> 1]

\* value / TWO, exact
DecHalf(value) ==
    [units |-> value.units \div TWO,
     num   |-> (value.units % TWO) * value.den + value.num,
     den   |-> TWO * value.den]

\* value - c for a whole number c of paise, exact
DecSubPaise(value, c) == [value EXCEPT !.units = @ - c]

\* taxable (mills) * rate (1/100 percent) / HUNDRED, exact; rate >= 0
DecTaxRaw(taxable_mills, rate_bp) ==
    LET hi  == taxable_mills \div RawScale
        lo  == taxable_mills % RawScale
        low == lo * rate_bp
    IN  [units |-> hi * rate_bp + low \div RawScale,
         num   |-> low % RawScale,
         den   |-> RawScale]

\* Decimal.quantize(Decimal('0.01'), rounding=ROUND_HALF_UP): nearest paise,
\* a tie going away from zero
round_decimal(value) ==
    IF value.units >= 0
    THEN value.units + (IF 2 * value.num >= value.den THEN 1 ELSE 0)
    ELSE value.units + (IF 2 * value.num > value.den THEN 1 ELSE 0)

\* format_for_json(value, 2): float(round_decimal(value)), in paise
format_for_json(value) == round_decimal(value)

\* parse_money applied to a float holding a decimal with three places
parse_money(m) == DecMills(m)

(***************************************************************************)
(* Tax split                                                               *)
(***************************************************************************)
\* the split with both halves rounded independently
compute_tax_both_rounded(taxable_value, gst_rate, seller_state_code, place_of_supply_code) ==
    LET tax_amount_raw == DecTaxRaw(taxable_value, gst_rate)
        is_intra_state == seller_state_code = place_of_supply_code
        cgst == IF is_intra_state THEN round_decimal(DecHalf(tax_amount_raw)) ELSE ZERO
        sgst == IF is_intra_state THEN round_decimal(DecHalf(tax_amount_raw)) ELSE ZERO
        igst == IF is_intra_state THEN ZERO ELSE round_decimal(tax_amount_raw)
        total_tax == cgst + sgst + igst
    IN  [tax_amount_raw |-> tax_amount_raw,
         tax_amount     |-> total_tax,
         cgst_amount    |-> cgst,
         sgst_amount    |-> sgst,
         igst_amount    |-> igst,
         rounding_diff  |-> round_decimal(tax_amount_raw) - total_tax,
         is_intra_state |-> is_intra_state]

\* the intra-state split with the first leg cut to whole paise instead of
\* rounded
compute_tax_cgst_truncated(taxable_value, gst_rate, seller_state_code, place_of_supply_code) ==
    LET tax_amount_raw == DecTaxRaw(taxable_value, gst_rate)
        is_intra_state == seller_state_code = place_of_supply_code
        cgst == IF is_intra_state THEN DecHalf(tax_amount_raw).units ELSE ZERO
        sgst == IF is_intra_state
                THEN round_decimal(DecSubPaise(tax_amount_raw, cgst))
                ELSE ZERO
        igst == IF is_intra_state THEN ZERO ELSE round_decimal(tax_amount_raw)
        total_tax == cgst + sgst + igst
    IN  [tax_amount_raw |-> tax_amount_raw,
         tax_amount     |-> total_tax,
         cgst_amount    |-> cgst,
         sgst_amount    |-> sgst,
         igst_amount    |-> igst,
         rounding_diff  |-> round_decimal(tax_amount_raw) - total_tax,
         is_intra_state |-> is_intra_state]

\* decimal_utils.compute_tax
\* the split with the whole tax also kept on igst for an intra-state supply
compute_tax_igst_kept(taxable_value, gst_rate, seller_state_code, place_of_supply_code) ==
    LET tax_amount_raw == DecTaxRaw(taxable_value, gst_rate)
        is_intra_state == seller_state_code = place_of_supply_code
        cgst == IF is_intra_state THEN round_decimal(DecHalf(tax_amount_raw)) ELSE ZERO
        sgst == IF is_intra_state
                THEN round_decimal(DecSubPaise(tax_amount_raw, cgst))
                ELSE ZERO
        igst == round_decimal(tax_amount_raw)
    IN  [tax_amount_raw |-> tax_amount_raw,
         tax_amount     |-> cgst + sgst + igst,
         cgst_amount    |-> cgst,
         sgst_amount    |-> sgst,
         igst_amount    |-> igst,
         rounding_diff  |-> round_decimal(tax_amount_raw) - (cgst + sgst + igst),
         is_intra_state |-> is_intra_state]

compute_tax(taxable_value, gst_rate, seller_state_code, place_of_supply_code) ==
    LET tax_amount_raw == DecTaxRaw(taxable_value, gst_rate)
        is_intra_state == seller_state_code = place_of_supply_code
        cgst == IF is_intra_state THEN round_decimal(DecHalf(tax_amount_raw)) ELSE ZERO
        sgst == IF is_intra_state
                THEN round_decimal(DecSubPaise(tax_amount_raw, cgst))
                ELSE ZERO
        igst == IF is_intra_state THEN ZERO ELSE round_decimal(tax_amount_raw)
        total_tax == cgst + sgst + igst
    IN  [tax_amount_raw |-> tax_amount_raw,
         tax_amount     |-> total_tax,
         cgst_amount    |-> cgst,
         sgst_amount    |-> sgst,
         igst_amount    |-> igst,
         rounding_diff  |-> round_decimal(tax_amount_raw) - total_tax,
         is_intra_state |-> is_intra_state]

\* utils.compute_tax_split; it returns no rounding_diff and no raw amount:
\* the record repeats the raw amount so that both results have one shape
compute_tax_split(taxable_value, gst_rate, seller_state, customer_state) ==
    LET raw == DecTaxRaw(taxable_value, gst_rate)
        tax_amount == round_decimal(raw)
        is_intra_state == seller_state = customer_state
        cgst == IF is_intra_state THEN round_decimal(DecHalf(DecPaise(tax_amount))) ELSE 0
        sgst == IF is_intra_state THEN tax_amount - cgst ELSE 0
        igst == IF is_intra_state THEN 0 ELSE tax_amount
    IN  [tax_amount_raw |-> raw,
         tax_amount     |-> tax_amount,
         cgst_amount    |-> cgst,
         sgst_amount    |-> sgst,
         igst_amount    |-> igst,
         rounding_diff  |-> 0,
         is_intra_state |-> is_intra_state]

(***************************************************************************)
(* Tax split calls                                                         *)
(***************************************************************************)
\* taxable values in mills: zero, sub-paise amounts, ties, negatives (returns),
\* the 10000.00 of the documented scenario and an amount above the 250000 limit
TaxableValues ==
    {0, 1, 5, 10, 15, 33, 50, 333, 1250, 2500, 10000 * 1000, 300000 * 1000,
     -5, -15, -333, -2500, -(10000 * 1000)}

\* rates in 1/100 percent: 0, 0.25, 3, 5, 18, 28
GstRates == {0, 25, 300, 500, 1800, 2800}

StateCodes == {"27", "29"}

NoTaxResult ==
    [tax_amount_raw |-> DecPaise(0), tax_amount |-> 0, cgst_amount |-> 0,
     sgst_amount |-> 0, igst_amount |-> 0, rounding_diff |-> 0,
     is_intra_state |-> FALSE]

TaxIdle ==
    /\ tax_args = [taxable_value |-> 0, gst_rate |-> 0,
                   seller_state_code |-> "27", place_of_supply_code |-> "27"]
    /\ tax_result = NoTaxResult
    /\ tax_pc = "idle"

RoundIdle ==
    /\ round_arg = [kind |-> "Decimal", value |-> 0]
    /\ round_result = 0
    /\ round_pc = "idle"

RangeIdle ==
    /\ range_lines = <<>>
    /\ document_ranges = <<>>
    /\ non_sequential_docs = <<>>
    /\ range_pc = "idle"

NoCall == [generator |-> "none", use_gemini |-> FALSE, reply |-> "none"]

GenIdle ==
    /\ upload_lines = <<>>
    /\ gen_call = NoCall
    /\ gstr1_complete = <<>>
    /\ gstr1_export = <<>>
    /\ gen_pc = "idle"

NoSplit == [matched |-> FALSE, prefix |-> <<>>, number |-> 0, pad_length |-> 0]

SplitIdle ==
    /\ split_arg = <<>>
    /\ split_result = NoSplit
    /\ split_pc = "idle"

\* a score of 0.0
NoScore == [num |-> 0, den |-> 1]

\* match_header returned None
NoMatch == [matched |-> FALSE, canonical_field |-> "", confidence |-> NoScore,
            match_type |-> ""]

HeaderIdle ==
    /\ canonical_fields = <<>>
    /\ header_arg = <<>>
    /\ header_match = NoMatch
    /\ header_pc = "idle"

\* no document in the uploads collection
NoUpload == [exists |-> FALSE, files |-> <<>>, file_content |-> {},
             approved_mappings |-> {}, status |-> "", processing_errors |-> <<>>]

\* no request in progress
NoRequest == [pc |-> "idle", upload_doc |-> NoUpload, mappings |-> {}, confirmed |-> {}]

NoResult == [parsed |-> <<>>, errors |-> <<>>]

\* no generate request has been answered
NoResponse == [status_code |-> 0, raised |-> 0, detail |-> ""]

ServerIdle ==
    /\ upload_doc = NoUpload
    /\ apply_call = NoRequest
    /\ process_call = NoRequest
    /\ process_result = NoResult
    /\ confirmed_files = {}
    /\ invoice_lines_collection = <<>>
    /\ gstr_exports = <<>>
    /\ generate_response = NoResponse

ParseIdle ==
    /\ parse_file = [file_type |-> "unknown", data_rows |-> <<>>]
    /\ parse_call = "none"
    /\ parse_lines = <<>>
    /\ parse_pc = "idle"

IntakeIdle == SplitIdle /\ HeaderIdle /\ ServerIdle /\ ParseIdle

TaxInit ==
    /\ RoundIdle
    /\ RangeIdle
    /\ GenIdle
    /\ IntakeIdle
    /\ tax_args \in [taxable_value : TaxableValues, gst_rate : GstRates,
                     seller_state_code : {"27"}, place_of_supply_code : StateCodes]
    /\ tax_result = NoTaxResult
    /\ tax_pc = "ready"

CallComputeTax ==
    /\ tax_pc = "ready"
    /\ tax_result' = compute_tax(tax_args.taxable_value, tax_args.gst_rate,
                                 tax_args.seller_state_code,
                                 tax_args.place_of_supply_code)
    /\ tax_pc' = "compute_tax"
    /\ UNCHANGED <<tax_args, round_vars, range_vars, gen_vars, intake_vars>>

CallComputeTaxSplit ==
    /\ tax_pc = "ready"
    /\ tax_result' = compute_tax_split(tax_args.taxable_value, tax_args.gst_rate,
                                       tax_args.seller_state_code,
                                       tax_args.place_of_supply_code)
    /\ tax_pc' = "compute_tax_split"
    /\ UNCHANGED <<tax_args, round_vars, range_vars, gen_vars, intake_vars>>

TaxNext == CallComputeTax \/ CallComputeTaxSplit

SpecTax == TaxInit /\ [][TaxNext]_vars

\* C1: after either tax split call, cgst + sgst + igst equals the half-up
\* rounding to 2 places of taxable_value * rate / 100 and the rounding
\* remainder is 0.
C1_SplitSumsToRoundedTax ==
    tax_pc \in {"compute_tax", "compute_tax_split"} =>
        /\ tax_result.cgst_amount + tax_result.sgst_amount + tax_result.igst_amount
             = round_decimal(DecTaxRaw(tax_args.taxable_value, tax_args.gst_rate))
        /\ tax_result.rounding_diff = 0

\* an intra-state split of an odd number of paise (0.25% of 2.50 rupees is
\* 0.00625, of 10.00 is 0.025) has been computed by compute_tax
C1_Witness ==
    /\ tax_pc = "compute_tax"
    /\ tax_result.is_intra_state
    /\ tax_result.cgst_amount # tax_result.sgst_amount

\* C20: after either tax split call with the seller state equal to the place
\* of supply, cgst and sgst differ by at most 0.01 (one paise).
C20_IntraStateLegsWithinOnePaise ==
    (tax_pc \in {"compute_tax", "compute_tax_split"}
        /\ tax_args.seller_state_code = tax_args.place_of_supply_code) =>
        Abs(tax_result.cgst_amount - tax_result.sgst_amount) <= 1

\* compute_tax_split has split an odd number of paise between the two legs
\* of an intra-state supply
C20_Witness ==
    /\ tax_pc = "compute_tax_split"
    /\ tax_args.seller_state_code = tax_args.place_of_supply_code
    /\ Abs(tax_result.cgst_amount - tax_result.sgst_amount) = 1

\* the side of a tax split that is_intra_state selects carries no amount
SelectedSideIsZero ==
    IF tax_result.is_intra_state
    THEN tax_result.cgst_amount = 0 /\ tax_result.sgst_amount = 0
    ELSE tax_result.igst_amount = 0

\* the side of a tax split that is_intra_state does not select carries no
\* amount
OtherSideIsZero ==
    IF tax_result.is_intra_state
    THEN tax_result.igst_amount = 0
    ELSE tax_result.cgst_amount = 0 /\ tax_result.sgst_amount = 0

\* C21: in every result of compute_tax exactly one of the two sides is
\* non-zero, never both: the cgst/sgst pair carries the tax and igst is 0
\* when is_intra_state, igst carries the tax and cgst and sgst are 0
\* otherwise.
C21_ExactlyOneSideNonZero ==
    tax_pc = "compute_tax" => (OtherSideIsZero /\ ~SelectedSideIsZero)

\* C21 as amended: in every result of compute_tax the side is_intra_state
\* does not select is 0, so never both sides are non-zero; the selected
\* side is 0 as well exactly when the tax rounds to 0.00 (a zero value, the
\* rate 0, or a tax below half a paise), and carries the tax otherwise.
C21_AtMostOneSideNonZero ==
    tax_pc = "compute_tax" =>
        /\ OtherSideIsZero
        /\ SelectedSideIsZero <=>
                round_decimal(DecTaxRaw(tax_args.taxable_value, tax_args.gst_rate)) = 0

\* compute_tax has returned an inter-state split with a tax on igst alone
C21_Witness ==
    /\ tax_pc = "compute_tax"
    /\ ~tax_result.is_intra_state
    /\ tax_result.igst_amount > 0
    /\ tax_result.cgst_amount = 0
    /\ tax_result.sgst_amount = 0

\* the cgst, sgst and igst amounts of a tax split result
SplitAmounts(result) ==
    <<result.cgst_amount, result.sgst_amount, result.igst_amount>>

\* C29: for every taxable value, rate and pair of state codes,
\* decimal_utils.compute_tax and utils.compute_tax_split return the same
\* cgst, sgst and igst amounts: the result of either call has the amounts the
\* other function returns for the same arguments.
C29_BothSplitsAgree ==
    tax_pc # "ready" =>
        /\ SplitAmounts(tax_result)
                = SplitAmounts(compute_tax(tax_args.taxable_value, tax_args.gst_rate,
                                           tax_args.seller_state_code,
                                           tax_args.place_of_supply_code))
        /\ SplitAmounts(tax_result)
                = SplitAmounts(compute_tax_split(tax_args.taxable_value, tax_args.gst_rate,
                                                 tax_args.seller_state_code,
                                                 tax_args.place_of_supply_code))

(***************************************************************************)
(* Rounding of amounts to 2 places                                         *)
(***************************************************************************)
\* round(Decimal, 2): Decimal.__round__ rounds to nearest, a tie to the even
\* neighbour
round_half_even(value) ==
    IF 2 * value.num > value.den THEN value.units + 1
    ELSE IF 2 * value.num < value.den THEN value.units
    ELSE IF value.units % 2 = 0 THEN value.units ELSE value.units + 1

\* whether the binary float nearest to value/1000 is that number itself: among
\* the amounts with a 5 in the third place only the odd multiples of 1/8
IsBinaryExact(value) == value % 125 = 0

\* GSTR1OfficialSchemas.format_decimal(value, 2): the possible results in paise.
\* A Decimal goes through round(value, 2).  Anything else goes through
\* round(float(value), 2), which rounds the binary float: an exact binary tie
\* goes to the even neighbour, and a decimal tie that no binary float holds
\* goes to the side the float's representation error falls on (either one).
format_decimal(arg) ==
    LET value == DecMills(arg.value)
    IN  IF arg.kind = "Decimal" THEN {round_half_even(value)}
        ELSE IF 2 * value.num # value.den \/ IsBinaryExact(arg.value)
             THEN {round_half_even(value)}
             ELSE {value.units, value.units + 1}

\* PortalCompliantGSTRGenerator._round_decimal(value, 2):
\* Decimal(str(value)).quantize(Decimal('0.00'), ROUND_HALF_UP); str() of a
\* float holding three decimal places prints those places
generator_v2_round_decimal(arg) == round_decimal(DecMills(arg.value))

\* amounts in mills: ties (a 5 in the third place), near-ties, both signs
RoundValues ==
    {0, 4, 5, 6, 15, 25, 125, 135, 375, 995, 1005, 2675, 10000,
     -4, -5, -6, -15, -25, -125, -135, -375, -995, -2675}

RoundInit ==
    /\ TaxIdle
    /\ RangeIdle
    /\ GenIdle
    /\ IntakeIdle
    /\ round_arg \in [kind : {"Decimal", "float"}, value : RoundValues]
    /\ round_result = 0
    /\ round_pc = "ready"

\* decimal_utils.round_decimal takes a Decimal
CallRoundDecimal ==
    /\ round_pc = "ready"
    /\ round_arg.kind = "Decimal"
    /\ round_result' = round_decimal(DecMills(round_arg.value))
    /\ round_pc' = "round_decimal"
    /\ UNCHANGED <<round_arg, tax_vars, range_vars, gen_vars, intake_vars>>

CallFormatForJson ==
    /\ round_pc = "ready"
    /\ round_arg.kind = "Decimal"
    /\ round_result' = format_for_json(DecMills(round_arg.value))
    /\ round_pc' = "format_for_json"
    /\ UNCHANGED <<round_arg, tax_vars, range_vars, gen_vars, intake_vars>>

CallGeneratorV2RoundDecimal ==
    /\ round_pc = "ready"
    /\ round_result' = generator_v2_round_decimal(round_arg)
    /\ round_pc' = "_round_decimal"
    /\ UNCHANGED <<round_arg, tax_vars, range_vars, gen_vars, intake_vars>>

CallFormatDecimal ==
    /\ round_pc = "ready"
    /\ \E r \in format_decimal(round_arg) : round_result' = r
    /\ round_pc' = "format_decimal"
    /\ UNCHANGED <<round_arg, tax_vars, range_vars, gen_vars, intake_vars>>

RoundNext ==
    \/ CallRoundDecimal
    \/ CallFormatForJson
    \/ CallGeneratorV2RoundDecimal
    \/ CallFormatDecimal

SpecRound == RoundInit /\ [][RoundNext]_vars

IsTie(value) == Abs(value) % 10 = 5

\* the neighbour of an exact tie that lies away from zero, in paise
AwayFromZero(value) == IF value > 0 THEN value \div 10 + 1 ELSE value \div 10

\* C8: every rounding of an amount to 2 places (round_decimal,
\* format_for_json, _round_decimal, format_decimal) sends an exact tie away
\* from zero, for positive and negative amounts.
C8_TiesRoundAwayFromZero ==
    (round_pc \notin {"idle", "ready"} /\ IsTie(round_arg.value)) =>
        round_result = AwayFromZero(round_arg.value)

\* the roundings that do use ROUND_HALF_UP send every tie away from zero
C8_HalfUpFunctionsTieAway ==
    (round_pc \in {"round_decimal", "format_for_json", "_round_decimal"}
        /\ IsTie(round_arg.value)) =>
        round_result = AwayFromZero(round_arg.value)

(***************************************************************************)
(* Text.  A str is a sequence of one-character strings.                    *)
(***************************************************************************)
DigitChars == <<"0", "1", "2", "3", "4", "5", "6", "7", "8", "9">>

IsDigit(c) == \E i \in DOMAIN DigitChars : DigitChars[i] = c

DigitValue(c) == (CHOOSE i \in DOMAIN DigitChars : DigitChars[i] = c) - 1

LowerChars ==
    <<"a", "b", "c", "d", "e", "f", "g", "h", "i", "j", "k", "l", "m",
      "n", "o", "p", "q", "r", "s", "t", "u", "v", "w", "x", "y", "z">>

UpperChars ==
    <<"A", "B", "C", "D", "E", "F", "G", "H", "I", "J", "K", "L", "M",
      "N", "O", "P", "Q", "R", "S", "T", "U", "V", "W", "X", "Y", "Z">>

\* str.upper()
upper(str) ==
    [i \in DOMAIN str |->
        IF \E k \in DOMAIN LowerChars : LowerChars[k] = str[i]
        THEN UpperChars[CHOOSE k \in DOMAIN LowerChars : LowerChars[k] = str[i]]
        ELSE str[i]]

MaxOf(S) == CHOOSE x \in S : \A y \in S : y <= x

MinOf(S) == CHOOSE x \in S : \A y \in S : x <= y

RECURSIVE Flatten(_)
Flatten(seqs) == IF seqs = <<>> THEN <<>> ELSE Head(seqs) \o Flatten(Tail(seqs))

SeqRange(seq) == {seq[i] : i \in DOMAIN seq}

IsSpace(c) == c \in {" ", "\t", "\n"}

\* str.strip()
RECURSIVE strip(_)
strip(str) ==
    IF str = <<>> THEN <<>>
    ELSE IF IsSpace(Head(str)) THEN strip(Tail(str))
    ELSE IF IsSpace(str[Len(str)]) THEN strip(SubSeq(str, 1, Len(str) - 1))
    ELSE str

\* int(num_str) for a run of digits
RECURSIVE int(_)
int(num_str) ==
    IF num_str = <<>> THEN 0
    ELSE int(SubSeq(num_str, 1, Len(num_str) - 1)) * 10
            + DigitValue(num_str[Len(num_str)])

\* str(number) for number >= 0
RECURSIVE str_of_int(_)
str_of_int(number) ==
    IF number < 10 THEN <<DigitChars[number + 1]>>
    ELSE str_of_int(number \div 10) \o <<DigitChars[(number % 10) + 1]>>

\* str.zfill(width)
RECURSIVE zfill(_, _)
zfill(str, width) == IF Len(str) >= width THEN str ELSE zfill(<<"0">> \o str, width)

(***************************************************************************)
(* Header matching (auto_mapper.py).  A confidence is the exact fraction   *)
(* num / den of the float the code computes.                               *)
(***************************************************************************)
\* str.lower()
lower(str) ==
    [i \in DOMAIN str |->
        IF \E k \in DOMAIN UpperChars : UpperChars[k] = str[i]
        THEN LowerChars[CHOOSE k \in DOMAIN UpperChars : UpperChars[k] = str[i]]
        ELSE str[i]]

\* re.sub(r'\s+', ' ', str)
RECURSIVE collapse_spaces(_)
collapse_spaces(str) ==
    IF str = <<>> THEN <<>>
    ELSE IF ~IsSpace(Head(str)) THEN <<Head(str)>> \o collapse_spaces(Tail(str))
    ELSE IF Len(str) > 1 /\ IsSpace(str[2]) THEN collapse_spaces(Tail(str))
    ELSE <<" ">> \o collapse_spaces(Tail(str))

\* the characters normalize_header removes
HeaderPunctuation == {"(", ")", "[", "]", "{", "}", "\"", "'"}

\* HeaderMatcher.normalize_header
normalize_header(header) ==
    IF header = <<>> THEN <<>>
    ELSE SelectSeq(collapse_spaces(strip(lower(header))),
                   LAMBDA c : c \notin HeaderPunctuation)

\* x in y, for two str
IsSubstring(x, y) ==
    \E i \in 0..(Len(y) - Len(x)) : SubSeq(y, i + 1, i + Len(x)) = x

\* the length of the common run of a[i..ahi] and b[j..bhi]
RECURSIVE common_run(_, _, _, _, _, _)
common_run(a, i, ahi, b, j, bhi) ==
    IF i > ahi \/ j > bhi \/ a[i] # b[j] THEN 0
    ELSE 1 + common_run(a, i + 1, ahi, b, j + 1, bhi)

\* the total size of SequenceMatcher.get_matching_blocks() within a[alo..ahi]
\* and b[blo..bhi]: the longest block, earliest in a and then earliest in b,
\* and the blocks to its left and to its right
RECURSIVE matching_size(_, _, _, _, _, _)
matching_size(a, alo, ahi, b, blo, bhi) ==
    IF alo > ahi \/ blo > bhi THEN 0
    ELSE LET size(i, j) == common_run(a, i, ahi, b, j, bhi)
             k == MaxOf({size(i, j) : i \in alo..ahi, j \in blo..bhi})
             i == MinOf({x \in alo..ahi : \E y \in blo..bhi : size(x, y) = k})
             j == MinOf({y \in blo..bhi : size(i, y) = k})
         IN  IF k = 0 THEN 0
             ELSE k + matching_size(a, alo, i - 1, b, blo, j - 1)
                    + matching_size(a, i + k, ahi, b, j + k, bhi)

\* SequenceMatcher(None, a, b).ratio() = 2.0 * matches / (len(a) + len(b))
sequence_ratio(a, b) ==
    IF Len(a) + Len(b) = 0 THEN [num |-> 1, den |-> 1]
    ELSE [num |-> 2 * matching_size(a, 1, Len(a), b, 1, Len(b)),
          den |-> Len(a) + Len(b)]

\* a > b for two scores
ScoreGreater(a, b) == a.num * b.den > b.num * a.den

IsZeroScore(a) == a.num = 0

\* the synonyms of a field: self.canonical_fields.get(canonical_field, [])
synonyms_of(fields, canonical_field) ==
    Flatten([k \in DOMAIN fields |->
                IF fields[k].field = canonical_field THEN fields[k].synonyms
                ELSE <<>>])

\* HeaderMatcher.exact_match
exact_match(fields, header, canonical_field) ==
    IF \E k \in DOMAIN synonyms_of(fields, canonical_field) :
            normalize_header(header)
                = normalize_header(synonyms_of(fields, canonical_field)[k])
    THEN [num |-> 1, den |-> 1]
    ELSE NoScore

\* HeaderMatcher.substring_match: 0.85 + (0.1 * shorter / longer) for the
\* first synonym that contains the header or is contained in it
substring_match(fields, header, canonical_field) ==
    LET header_norm == normalize_header(header)
        synonyms == synonyms_of(fields, canonical_field)
        hits == {k \in DOMAIN synonyms :
                    \/ IsSubstring(header_norm, normalize_header(synonyms[k]))
                    \/ IsSubstring(normalize_header(synonyms[k]), header_norm)}
    IN  IF hits = {} THEN NoScore
        ELSE LET synonym_norm == normalize_header(synonyms[MinOf(hits)])
                 shorter == MinOf({Len(header_norm), Len(synonym_norm)})
                 longer == MaxOf({Len(header_norm), Len(synonym_norm)})
             IN  [num |-> 85 * longer + 10 * shorter, den |-> 100 * longer]

\* a fuzzy match that returns the best ratio as it is, from 0.75 on
fuzzy_match_unscaled(fields, header, canonical_field) ==
    LET header_norm == normalize_header(header)
        synonyms == synonyms_of(fields, canonical_field)
        ratios == {sequence_ratio(header_norm, normalize_header(synonyms[k])) :
                        k \in DOMAIN synonyms}
        best_score == IF ratios = {} THEN NoScore
                      ELSE CHOOSE r \in ratios :
                                \A q \in ratios : ~ScoreGreater(q, r)
    IN  IF 4 * best_score.num >= 3 * best_score.den THEN best_score ELSE NoScore

\* HeaderMatcher.fuzzy_match: the best ratio over the synonyms, mapped from
\* 0.75..1.0 to 0.70..0.85, and 0.0 below 0.75
fuzzy_match(fields, header, canonical_field) ==
    LET header_norm == normalize_header(header)
        synonyms == synonyms_of(fields, canonical_field)
        ratios == {sequence_ratio(header_norm, normalize_header(synonyms[k])) :
                        k \in DOMAIN synonyms}
        best_score == IF ratios = {} THEN NoScore
                      ELSE CHOOSE r \in ratios :
                                \A q \in ratios : ~ScoreGreater(q, r)
    IN  IF 4 * best_score.num >= 3 * best_score.den
        THEN [num |-> 25 * best_score.den + 60 * best_score.num,
              den |-> 100 * best_score.den]
        ELSE NoScore

\* one turn of the loop of a matcher that lets every field that matches
\* replace the best one found so far
matched_field_last_wins(fields, header, best, k) ==
    LET canonical_field == fields[k].field
        exact == exact_match(fields, header, canonical_field)
        substring == substring_match(fields, header, canonical_field)
        fuzzy == fuzzy_match(fields, header, canonical_field)
    IN  IF ~IsZeroScore(exact)
        THEN [matched |-> TRUE, canonical_field |-> canonical_field,
              confidence |-> exact, match_type |-> "exact"]
        ELSE IF ~IsZeroScore(substring)
        THEN [matched |-> TRUE, canonical_field |-> canonical_field,
              confidence |-> substring, match_type |-> "substring"]
        ELSE IF ~IsZeroScore(fuzzy)
        THEN [matched |-> TRUE, canonical_field |-> canonical_field,
              confidence |-> fuzzy, match_type |-> "fuzzy"]
        ELSE best

RECURSIVE best_match_last_wins(_, _, _)
best_match_last_wins(fields, header, k) ==
    IF k = 0 THEN NoMatch
    ELSE matched_field_last_wins(fields, header,
                                 best_match_last_wins(fields, header, k - 1), k)

match_header_last_wins(fields, header) ==
    best_match_last_wins(fields, header, Len(fields))

\* one turn of the loop of match_header over the fields: exact first,
\* substring only if exact gave 0.0, fuzzy only if both gave 0.0; a score
\* replaces the best one only if it is greater
matched_field(fields, header, best, k) ==
    LET canonical_field == fields[k].field
        exact == exact_match(fields, header, canonical_field)
        after_exact ==
            IF ScoreGreater(exact, best.confidence)
            THEN [matched |-> TRUE, canonical_field |-> canonical_field,
                  confidence |-> exact, match_type |-> "exact"]
            ELSE best
        substring == IF IsZeroScore(exact)
                     THEN substring_match(fields, header, canonical_field)
                     ELSE exact
        after_substring ==
            IF IsZeroScore(exact) /\ ScoreGreater(substring, after_exact.confidence)
            THEN [matched |-> TRUE, canonical_field |-> canonical_field,
                  confidence |-> substring, match_type |-> "substring"]
            ELSE after_exact
        fuzzy == IF IsZeroScore(substring)
                 THEN fuzzy_match(fields, header, canonical_field)
                 ELSE substring
    IN  IF IsZeroScore(substring) /\ ScoreGreater(fuzzy, after_substring.confidence)
        THEN [matched |-> TRUE, canonical_field |-> canonical_field,
              confidence |-> fuzzy, match_type |-> "fuzzy"]
        ELSE after_substring

\* the best match after the first k fields of the dictionary
RECURSIVE best_match(_, _, _)
best_match(fields, header, k) ==
    IF k = 0 THEN NoMatch
    ELSE matched_field(fields, header, best_match(fields, header, k - 1), k)

\* HeaderMatcher.match_header: the best match if its score is >= 0.70
match_header(fields, header) ==
    LET best == best_match(fields, header, Len(fields))
    IN  IF best.matched /\ 100 * best.confidence.num >= 70 * best.confidence.den
        THEN best
        ELSE NoMatch

(***************************************************************************)
(* Calls of match_header                                                   *)
(***************************************************************************)
\* fields of CANONICAL_FIELDS with two of their synonyms each
FieldExcerpt ==
    <<[field |-> "place_of_supply",
       synonyms |-> <<<<"p", "o", "s">>, <<"s", "t", "a", "t", "e">>>>],
      [field |-> "cgst_amount",
       synonyms |-> <<<<"c", "g", "s", "t">>,
                      <<"c", "e", "n", "t", "r", "a", "l", " ", "g", "s", "t">>>>],
      [field |-> "sgst_amount",
       synonyms |-> <<<<"s", "g", "s", "t">>,
                      <<"s", "t", "a", "t", "e", " ", "g", "s", "t">>>>],
      [field |-> "invoice_type",
       synonyms |-> <<<<"i", "n", "v", "o", "i", "c", "e", " ", "t", "y", "p", "e">>,
                      <<"t", "y", "p", "e">>>>],
      [field |-> "note_type",
       synonyms |-> <<<<"n", "o", "t", "e", " ", "t", "y", "p", "e">>,
                      <<"t", "y", "p", "e">>>>]>>

\* the dictionaries a HeaderMatcher is built with: the excerpt in every order
Dictionaries ==
    {[k \in DOMAIN FieldExcerpt |-> FieldExcerpt[order[k]]] :
        order \in Permutations(DOMAIN FieldExcerpt)}

\* the invoice-number field of CANONICAL_FIELDS with all its synonyms
InvoiceNoField ==
    [field |-> "invoice_no",
     synonyms |-> <<<<"i", "n", "v", "o", "i", "c", "e", " ", "n", "u", "m", "b", "e", "r">>,
                    <<"i", "n", "v", "o", "i", "c", "e", " ", "n", "o", ".">>,
                    <<"i", "n", "v", " ", "n", "o">>,
                    <<"i", "n", "v", "o", "i", "c", "e", " ", "n", "o">>,
                    <<"i", "n", "v", "_", "n", "o">>,
                    <<"b", "i", "l", "l", " ", "n", "o">>,
                    <<"b", "i", "l", "l", " ", "n", "u", "m", "b", "e", "r">>>>]

\* the default dictionary: the invoice-number field and the fields of the
\* excerpt in the order of CANONICAL_FIELDS
DefaultFields == <<InvoiceNoField>> \o FieldExcerpt

\* invoice-number headers of uploaded files
InvoiceHeaders ==
    {<<"I", "n", "v", " ", "N", "o", ".">>,
     <<"I", "n", "v", " ", "N", "o">>,
     <<"I", "N", "V", "O", "I", "C", "E", " ", " ", "N", "O", ".">>,
     <<"I", "n", "v", ".", " ", "N", "o", ".">>,
     <<"B", "i", "l", "l">>}

\* headers of uploaded files
FileHeaders ==
    {<<"S", "t", "a", "t", "e">>,
     <<" ", "(", "S", "G", "S", "T", ")", " ">>,
     <<"T", "Y", "P", "E">>,
     <<"s", "t", "a", "t", "e", " ", " ", "G", "S", "T">>,
     <<"C", "g", "s", "t">>,
     <<"g", "s", "t">>,
     <<"s", "g", "t", "s">>,
     <<"s", "t", "a", "e">>,
     <<"n", "o", "t", "e", "t", "y", "p", "e">>,
     <<"x", "y", "z">>,
     <<>>}

HeaderInit ==
    /\ TaxIdle
    /\ RoundIdle
    /\ RangeIdle
    /\ GenIdle
    /\ SplitIdle
    /\ ServerIdle
    /\ ParseIdle
    /\ \/ /\ canonical_fields \in Dictionaries
          /\ header_arg \in FileHeaders
       \/ /\ canonical_fields = DefaultFields
          /\ header_arg \in FileHeaders \cup InvoiceHeaders
    /\ header_match = NoMatch
    /\ header_pc = "ready"

\* HeaderMatcher(canonical_fields).match_header(header)
CallMatchHeader ==
    /\ header_pc = "ready"
    /\ header_match' = match_header(canonical_fields, header_arg)
    /\ header_pc' = "matched"
    /\ UNCHANGED <<canonical_fields, header_arg, tax_vars, round_vars,
                   range_vars, gen_vars, split_vars, server_vars, parse_vars>>

HeaderNext == CallMatchHeader

SpecHeader == HeaderInit /\ [][HeaderNext]_vars

\* the fields one of whose synonyms equals the header after normalization
ExactFields(fields, header) ==
    {fields[k].field : k \in {x \in DOMAIN fields :
        \E n \in DOMAIN fields[x].synonyms :
            normalize_header(fields[x].synonyms[n]) = normalize_header(header)}}

\* C11: whenever the normalized header equals a normalized synonym of some
\* field, match_header returns a field the header matches exactly, with
\* match type "exact" and confidence 1.0, whatever the order of the
\* dictionary and whatever substring or fuzzy matches other fields have.
C11_ExactMatchWins ==
    (header_pc = "matched" /\ ExactFields(canonical_fields, header_arg) # {}) =>
        /\ header_match.matched
        /\ header_match.canonical_field \in ExactFields(canonical_fields, header_arg)
        /\ header_match.match_type = "exact"
        /\ header_match.confidence.num = header_match.confidence.den

\* an exact match returned for a header that is not written as the synonym
\* is, although a field earlier in the dictionary has a fuzzy match
C11_Witness ==
    /\ header_pc = "matched"
    /\ header_match.match_type = "exact"
    /\ header_arg # normalize_header(header_arg)
    /\ \E k \in DOMAIN canonical_fields :
        /\ canonical_fields[k].field = header_match.canonical_field
        /\ \E before \in 1..(k - 1) :
            /\ canonical_fields[before].field
                    \notin ExactFields(canonical_fields, header_arg)
            /\ ~IsZeroScore(fuzzy_match(canonical_fields, header_arg,
                                        canonical_fields[before].field))

\* C22: with the default dictionary, match_header maps the header "Inv No."
\* to the invoice-number field as an exact match with confidence 1.0.
C22_InvNoIsExactMatch ==
    (/\ header_pc = "matched"
     /\ canonical_fields = DefaultFields
     /\ header_arg = <<"I", "n", "v", " ", "N", "o", ".">>) =>
        /\ header_match.matched
        /\ header_match.canonical_field = "invoice_no"
        /\ header_match.match_type = "exact"
        /\ header_match.confidence.num = header_match.confidence.den

\* low <= a < high for a score and two numbers of hundredths
ScoreWithin(a, low, high) == low * a.den <= 100 * a.num /\ 100 * a.num < high * a.den

\* C26: every result of match_header has a confidence in the tier of its
\* match type: exactly 1.0 for "exact", at least 0.85 and below 0.95 for
\* "substring", at least 0.70 and below 0.85 for "fuzzy"; a header is left
\* unmapped only when no field scores 0.70 or more for it.
C26_ConfidenceInTierOfMatchType ==
    header_pc = "matched" =>
        IF header_match.matched
        THEN CASE header_match.match_type = "exact" ->
                    header_match.confidence.num = header_match.confidence.den
               [] header_match.match_type = "substring" ->
                    ScoreWithin(header_match.confidence, 85, 95)
               [] header_match.match_type = "fuzzy" ->
                    ScoreWithin(header_match.confidence, 70, 85)
               [] OTHER -> FALSE
        ELSE \A k \in DOMAIN canonical_fields :
                LET field == canonical_fields[k].field
                IN  /\ ScoreWithin(exact_match(canonical_fields, header_arg, field), 0, 70)
                    /\ ScoreWithin(substring_match(canonical_fields, header_arg, field),
                                   0, 70)
                    /\ ScoreWithin(fuzzy_match(canonical_fields, header_arg, field), 0, 70)

\* a fuzzy match returned with a confidence strictly inside its tier
C26_Witness ==
    /\ header_pc = "matched"
    /\ header_match.match_type = "fuzzy"
    /\ ScoreWithin(header_match.confidence, 75, 85)

(***************************************************************************)
(* Upload, mapping confirmation and processing (server.py,                 *)
(* parser_enhanced.py)                                                     *)
(***************************************************************************)
RECURSIVE GCD(_, _)
GCD(a, b) == IF b = 0 THEN a ELSE GCD(b, a % b)

\* the fraction num / den in lowest terms
ReducedScore(num, den) == [num |-> num \div GCD(num, den), den |-> den \div GCD(num, den)]

\* a + b for two scores
ScoreSum(a, b) == ReducedScore(a.num * b.den + b.num * a.den, a.den * b.den)

\* the matches that resolve
resolved_headers(matches) ==
    [header \in {h \in DOMAIN matches : matches[h].matched} |-> matches[header]]

\* HeaderMatcher.map_headers: the matches of the headers that resolve, keyed
\* by header
map_headers(fields, headers) ==
    resolved_headers([header \in SeqRange(headers) |-> match_header(fields, header)])

\* sum(m.confidence for m in mappings.values()) over the given keys
RECURSIVE sum_confidence(_, _)
sum_confidence(mappings, keys) ==
    IF keys = {} THEN NoScore
    ELSE LET key == CHOOSE k \in keys : TRUE
         IN  ScoreSum(mappings[key].confidence,
                      sum_confidence(mappings, keys \ {key}))

\* avg_confidence of detect_and_classify_file
\* total / count
ScoreOver(total, count) == [num |-> total.num, den |-> total.den * count]

avg_confidence(mappings) ==
    IF DOMAIN mappings = {} THEN NoScore
    ELSE ScoreOver(sum_confidence(mappings, DOMAIN mappings),
                   Cardinality(DOMAIN mappings))

\* the confidence below which a file needs its mapping confirmed: 0.75
MappingThreshold == [num |-> 3, den |-> 4]

\* a < 0.75
BelowThreshold(a) == ScoreGreater(MappingThreshold, a)

\* the FileInfo of a file with the given detection; mapping_confidence is
\* <<>> for None
file_info(filename, headers, detected, confidence) ==
    [filename |-> filename, columns |-> headers, detected |-> detected,
     mapping_confidence |-> confidence, needs_mapping |-> ~detected]

\* the FileInfo of a file with headers whose resolved headers have the given
\* mean confidence
classified(filename, headers, avg) ==
    file_info(filename, headers, ~BelowThreshold(avg), <<avg>>)

\* the same from 0.70 on
classified_lenient(filename, headers, avg) ==
    file_info(filename, headers, 100 * avg.num >= 70 * avg.den, <<avg>>)

\* a detection that accepts a file from 0.70 on
detect_and_classify_file_lenient(filename, headers) ==
    IF headers = <<>> THEN file_info(filename, <<>>, FALSE, <<>>)
    ELSE classified_lenient(filename, headers,
                            avg_confidence(map_headers(FieldExcerpt, headers)))

\* EnhancedFileParser.detect_and_classify_file: a file without headers is
\* not detected; otherwise it is detected when the mean confidence of the
\* resolved headers is >= 0.75
detect_and_classify_file(filename, headers) ==
    IF headers = <<>> THEN file_info(filename, <<>>, FALSE, <<>>)
    ELSE classified(filename, headers,
                    avg_confidence(map_headers(FieldExcerpt, headers)))

\* the files of upload requests: a filename and the header row
SalesFile == [filename |-> "sales.csv", headers |-> <<<<"S", "t", "a", "t", "e">>,
                                                     <<"T", "Y", "P", "E">>>>]

MixedFile == [filename |-> "mixed.csv", headers |-> <<<<"S", "t", "a", "t", "e">>,
                                                     <<"s", "g", "t", "s">>>>]

NotesFile == [filename |-> "notes.csv", headers |-> <<<<"s", "t", "a", "e">>,
                                                     <<"s", "g", "t", "s">>>>]

StockFile == [filename |-> "stock.csv", headers |-> <<<<"s", "g", "t", "s">>,
                                                     <<"x", "y", "z">>>>]

OtherFile == [filename |-> "other.csv", headers |-> <<<<"x", "y", "z">>>>]

BlankFile == [filename |-> "blank.csv", headers |-> <<>>]

\* the file lists of upload requests
UploadRequests ==
    {<<SalesFile>>, <<NotesFile>>, <<SalesFile, NotesFile>>, <<NotesFile, MixedFile>>,
     <<StockFile, OtherFile>>, <<BlankFile, SalesFile>>, <<OtherFile, BlankFile>>}

Filenames(files) == {files[k].filename : k \in DOMAIN files}

UploadInit ==
    /\ TaxIdle
    /\ RoundIdle
    /\ RangeIdle
    /\ GenIdle
    /\ SplitIdle
    /\ HeaderIdle
    /\ ServerIdle
    /\ ParseIdle

\* the files whose content upload_files puts into the metadata: every file
\* extracted from a ZIP, and a file uploaded directly only when its storage
\* upload failed
stored_content(storage_failed, zipped) == zipped \cup storage_failed

\* the document upload_files creates for the classified files
new_upload(files_info, file_content) ==
    [exists |-> TRUE,
     files |-> files_info,
     file_content |-> file_content,
     approved_mappings |-> {},
     status |-> IF \E k \in DOMAIN files_info : files_info[k].needs_mapping
                THEN "mapping" ELSE "uploaded",
     processing_errors |-> <<>>]

\* upload_files: every file is classified; its content is kept in the
\* metadata when the storage upload failed; the document is created
UploadFiles ==
    /\ ~upload_doc.exists
    /\ \E files \in UploadRequests :
        \E storage_failed, zipped \in SUBSET Filenames(files) :
            upload_doc' =
                new_upload([k \in DOMAIN files |->
                                detect_and_classify_file(files[k].filename,
                                                         files[k].headers)],
                           stored_content(storage_failed, zipped))
    /\ UNCHANGED <<apply_call, process_call, process_result, confirmed_files, store_vars,
                   tax_vars, round_vars, range_vars, gen_vars, split_vars, header_vars,
                   parse_vars>>

\* apply_mapping up to its update: the document is read and the mappings of
\* the request body (keyed by filename) replace its approved_mappings
ApplyMappingFind ==
    /\ upload_doc.exists
    /\ apply_call.pc = "idle"
    /\ \E mappings \in SUBSET Filenames(upload_doc.files) :
        apply_call' = [pc |-> "update",
                       upload_doc |-> [upload_doc EXCEPT
                                            !.approved_mappings = mappings,
                                            !.status = "uploaded"],
                       mappings |-> mappings,
                       confirmed |-> confirmed_files]
    /\ UNCHANGED <<upload_doc, process_call, process_result, confirmed_files, store_vars,
                   tax_vars, round_vars, range_vars, gen_vars, split_vars, header_vars,
                   parse_vars>>

\* apply_mapping: uploads_collection.update(upload_id, upload_doc) writes the
\* whole document it read
ApplyMappingUpdate ==
    /\ apply_call.pc = "update"
    /\ upload_doc' = apply_call.upload_doc
    /\ confirmed_files' = confirmed_files \cup apply_call.mappings
    /\ apply_call' = NoRequest
    /\ UNCHANGED <<process_call, process_result, store_vars,
                   tax_vars, round_vars, range_vars, gen_vars, split_vars, header_vars,
                   parse_vars>>

\* number of file insertions the invoice_lines collection holds at most
MaxStoredFiles == 2

\* process_upload up to its loop: the document is read and its status set
ProcessFind ==
    /\ upload_doc.exists
    /\ process_call.pc = "idle"
    /\ Len(invoice_lines_collection) + Len(upload_doc.files) <= MaxStoredFiles
    /\ process_call' = [pc |-> "files", upload_doc |-> upload_doc,
                        mappings |-> upload_doc.approved_mappings,
                        confirmed |-> confirmed_files]
    /\ upload_doc' = [upload_doc EXCEPT !.status = "processing"]
    /\ UNCHANGED <<apply_call, process_result, confirmed_files, store_vars,
                   tax_vars, round_vars, range_vars, gen_vars, split_vars, header_vars,
                   parse_vars>>

\* the error process_upload records for a file, "" if it parses the file
file_error(file, approved_mappings, file_content) ==
    IF ~file.detected /\ file.filename \notin approved_mappings THEN "needs mapping"
    ELSE IF file.filename \notin file_content THEN "Content not found"
    ELSE ""

\* process_upload, the loop over the files and the final update: a file that
\* is not detected and has no approved mappings gets a "needs mapping"
\* error, a file without stored content a "Content not found" error, and
\* every other file is parsed
ProcessFiles ==
    /\ process_call.pc = "files"
    /\ LET upload == process_call.upload_doc
           error(k) == file_error(upload.files[k], upload.approved_mappings,
                                  upload.file_content)
           errors == SelectSeq([k \in DOMAIN upload.files |->
                                    [error |-> error(k),
                                     filename |-> upload.files[k].filename]],
                               LAMBDA e : e.error # "")
           parsed == SelectSeq([k \in DOMAIN upload.files |->
                                    IF error(k) = "" THEN upload.files[k].filename
                                    ELSE ""],
                               LAMBDA filename : filename # "")
       IN  /\ process_result' = [parsed |-> parsed, errors |-> errors]
           /\ invoice_lines_collection' =
                    invoice_lines_collection \o
                        [k \in DOMAIN parsed |->
                            [filename |-> parsed[k],
                             user_mapped |-> parsed[k] \in upload.approved_mappings]]
           /\ upload_doc' = [upload_doc EXCEPT
                                !.status = IF errors = <<>> THEN "completed"
                                           ELSE "failed",
                                !.processing_errors = errors]
    /\ process_call' = [process_call EXCEPT !.pc = "done"]
    /\ UNCHANGED <<apply_call, confirmed_files, gstr_exports, generate_response,
                   tax_vars, round_vars, range_vars, gen_vars, split_vars, header_vars,
                   parse_vars>>

\* the response of process_upload is returned
ProcessReturn ==
    /\ process_call.pc = "done"
    /\ process_call' = NoRequest
    /\ UNCHANGED <<upload_doc, apply_call, process_result, confirmed_files, store_vars,
                   tax_vars, round_vars, range_vars, gen_vars, split_vars, header_vars,
                   parse_vars>>

\* number of exports the gstr_exports collection holds at most
MaxExports == 1

\* an HTTPException raised inside the try block of generate_gstr1_json: the
\* except Exception branch of the handler catches it and raises
\* HTTPException(status_code=500, detail=str(e)) in its place
generate_rejection(status_code, detail) ==
    [status_code |-> 500, raised |-> status_code, detail |-> detail]

\* the response of generate_gstr1_json for the upload document and the
\* invoice lines found for the upload
generate_gstr1_response(upload, invoice_lines) ==
    IF ~upload.exists THEN generate_rejection(404, "Upload not found")
    ELSE IF upload.status # "completed"
    THEN generate_rejection(400, "Upload must be processed first")
    ELSE IF invoice_lines = <<>> THEN generate_rejection(400, "No invoice lines found")
    ELSE [status_code |-> 200, raised |-> 0, detail |-> ""]

\* what generate_gstr1_json leaves behind: an export of the lines is
\* inserted only before a 200 response
generate_store(response, invoice_lines) ==
    /\ generate_response' = response
    /\ gstr_exports' =
            IF response.status_code = 200
            THEN Append(gstr_exports, [invoice_lines |-> invoice_lines])
            ELSE gstr_exports

\* generate_gstr1_json: one generate request for the upload
GenerateGstr1Json ==
    /\ Len(gstr_exports) < MaxExports
    /\ generate_store(generate_gstr1_response(upload_doc, invoice_lines_collection),
                      invoice_lines_collection)
    /\ UNCHANGED <<upload_doc, apply_call, process_call, process_result, confirmed_files,
                   invoice_lines_collection,
                   tax_vars, round_vars, range_vars, gen_vars, split_vars, header_vars,
                   parse_vars>>

UploadNext ==
    \/ GenerateGstr1Json
    \/ UploadFiles
    \/ ApplyMappingFind
    \/ ApplyMappingUpdate
    \/ ProcessFind
    \/ ProcessFiles
    \/ ProcessReturn

SpecUpload == UploadInit /\ [][UploadNext]_vars

\* the mean confidence over the resolved headers of a file, 0 when none
\* resolve or the file has no headers
OverallConfidence(file) ==
    IF file.mapping_confidence = <<>> THEN NoScore ELSE file.mapping_confidence[1]

C24_UnprocessedUploadRejectedWith400 ==
    [][(/\ upload_doc.exists
        /\ upload_doc.status # "completed"
        /\ generate_response' # generate_response) =>
            /\ generate_response'.status_code = 400
            /\ generate_response'.detail = "Upload must be processed first"
            /\ gstr_exports' = gstr_exports]_vars

\* C27: a process call finds the content of every file of the upload,
\* whether the file was uploaded directly or extracted from a ZIP and
\* whether its storage upload succeeded or failed: no "Content not found"
\* error is recorded.
C27_ContentFoundForEveryFile ==
    process_call.pc = "done" =>
        \A k \in DOMAIN process_result.errors :
            process_result.errors[k].error # "Content not found"

\* C28: after any number of process calls the invoice_lines collection
\* holds the lines of each file of the upload at most once.
C28_LinesStoredOnce ==
    \A i, k \in DOMAIN invoice_lines_collection :
        invoice_lines_collection[i].filename = invoice_lines_collection[k].filename
            => i = k

\* EnhancedFileParser.seller_state_code
SellerStateCode == "27"

\* invoice value above which an unregistered buyer's invoice is B2C Large,
\* in thousandths of a rupee
B2CLThreshold == 250000 * 1000

(***************************************************************************)
(* File parsing (parser_enhanced.py, parser.py, utils.py).  A cell of a    *)
(* row is None, a str or a number; a number is held in mills.              *)
(***************************************************************************)
None == [kind |-> "None", text |-> <<>>, number |-> 0]

Text(text) == [kind |-> "str", text |-> text, number |-> 0]

Number(mills) == [kind |-> "number", text |-> <<>>, number |-> mills]

\* the digits of the mills of a number after the decimal point, without
\* trailing zeros
FractionDigits(mills) ==
    IF mills % 10 # 0
    THEN <<DigitChars[(mills \div 100) + 1], DigitChars[((mills \div 10) % 10) + 1],
           DigitChars[(mills % 10) + 1]>>
    ELSE IF mills % 100 # 0
    THEN <<DigitChars[(mills \div 100) + 1], DigitChars[((mills \div 10) % 10) + 1]>>
    ELSE <<DigitChars[(mills \div 100) + 1]>>

\* str(value) of a cell; a number that is whole is an int
python_str(value) ==
    IF value.kind = "None" THEN <<"N", "o", "n", "e">>
    ELSE IF value.kind = "str" THEN value.text
    ELSE (IF value.number < 0 THEN <<"-">> ELSE <<>>)
            \o str_of_int(Abs(value.number) \div 1000)
            \o (IF value.number % 1000 = 0 THEN <<>>
                ELSE <<".">> \o FractionDigits(Abs(value.number) % 1000))

\* "not value" of a cell
IsFalsy(value) ==
    \/ value.kind = "None"
    \/ value.kind = "str" /\ value.text = <<>>
    \/ value.kind = "number" /\ value.number = 0

\* Decimal(s) / float(s) of a str with at most three decimal places: the
\* value in mills, or not ok where the conversion raises
decimal_of(s) ==
    LET body == IF s # <<>> /\ s[1] \in {"-", "+"} THEN Tail(s) ELSE s
        dots == {i \in DOMAIN body : body[i] = "."}
        dot == IF dots = {} THEN Len(body) + 1 ELSE MinOf(dots)
        whole == SubSeq(body, 1, dot - 1)
        fraction == SubSeq(body, dot + 1, Len(body))
        ok == /\ Cardinality(dots) <= 1
              /\ \A i \in DOMAIN whole : IsDigit(whole[i])
              /\ \A i \in DOMAIN fraction : IsDigit(fraction[i])
              /\ Len(whole) + Len(fraction) >= 1
              /\ Len(fraction) <= 3
        padded == fraction \o SubSeq(<<"0", "0", "0">>, 1, 3 - Len(fraction))
        mills == int(whole) * 1000 + int(padded)
    IN  [ok |-> ok,
         mills |-> IF ~ok THEN 0
                   ELSE IF s[1] = "-" THEN -mills ELSE mills]

\* the characters parse_money removes: re.sub(r'[₹$€£Rs,\s]+', '', s)
MoneyNoise == {"₹", "$", "€", "£", "R", "s", ","}

\* decimal_utils.parse_money of a cell, in mills: None and "" give ZERO,
\* brackets mean a negative amount, what is no number gives ZERO
parse_money_value(value) ==
    IF value.kind = "None" THEN 0
    ELSE IF value.kind = "number" THEN value.number
    ELSE LET stripped == strip(value.text)
             is_negative == /\ Len(stripped) >= 1
                            /\ stripped[1] = "("
                            /\ stripped[Len(stripped)] = ")"
             inner == IF is_negative THEN SubSeq(stripped, 2, Len(stripped) - 1)
                      ELSE stripped
             result == decimal_of(SelectSeq(inner,
                            LAMBDA c : c \notin MoneyNoise /\ ~IsSpace(c)))
         IN  IF stripped = <<>> \/ ~result.ok THEN 0
             ELSE IF is_negative THEN -result.mills ELSE result.mills

\* str.replace("Rs", "")
RECURSIVE remove_rs(_)
remove_rs(s) ==
    IF s = <<>> THEN <<>>
    ELSE IF Len(s) >= 2 /\ s[1] = "R" /\ s[2] = "s" THEN remove_rs(SubSeq(s, 3, Len(s)))
    ELSE <<Head(s)>> \o remove_rs(Tail(s))

\* utils.clean_numeric_value: [ok, mills]; not ok stands for None
clean_numeric_value(value) ==
    IF value.kind = "None" \/ (value.kind = "str" /\ value.text = <<>>)
    THEN [ok |-> FALSE, mills |-> 0]
    ELSE IF value.kind = "number" THEN [ok |-> TRUE, mills |-> value.number]
    ELSE decimal_of(strip(remove_rs(SelectSeq(value.text, LAMBDA c : c # ","))))

\* utils.validate_gst_rate, the rate in mills
validate_gst_rate(rate) == rate \in {0, 250, 3000, 5000, 12000, 18000, 28000}

\* states of STATE_CODE_MAPPING, in its order
StateExcerpt ==
    <<[state |-> <<"k", "a", "r", "n", "a", "t", "a", "k", "a">>, code |-> "29"],
      [state |-> <<"m", "a", "h", "a", "r", "a", "s", "h", "t", "r", "a">>,
       code |-> "27"],
      [state |-> <<"d", "e", "l", "h", "i">>, code |-> "07"]>>

\* utils.normalize_state_to_code of a str: the code of the state of that
\* name, else of the first state that contains the name or is contained in
\* it, else "" for None
state_code_of(state_name) ==
    LET normalized == lower(strip(state_name))
        direct == {k \in DOMAIN StateExcerpt : StateExcerpt[k].state = normalized}
        partial == {k \in DOMAIN StateExcerpt :
                        \/ IsSubstring(StateExcerpt[k].state, normalized)
                        \/ IsSubstring(normalized, StateExcerpt[k].state)}
    IN  IF direct # {} THEN StateExcerpt[MinOf(direct)].code
        ELSE IF partial # {} THEN StateExcerpt[MinOf(partial)].code
        ELSE ""

\* utils.normalize_state_to_code of a cell: [raised, code]; a number other
\* than 0 has no strip() and raises
normalize_state_to_code(state_name) ==
    IF IsFalsy(state_name) THEN [raised |-> FALSE, code |-> ""]
    ELSE IF state_name.kind = "number" THEN [raised |-> TRUE, code |-> ""]
    ELSE [raised |-> FALSE, code |-> state_code_of(state_name.text)]

\* the header row of the files
FileColumns == <<"total_taxable_sale_value", "gst_rate", "end_customer_state_new",
                 "invoice_no">>

\* the mappings handed to parse_file_with_mapping: file header -> canonical
\* field; the invoice_no column has none
FileMappings ==
    [file_header \in {"total_taxable_sale_value", "gst_rate", "end_customer_state_new"} |->
        CASE file_header = "total_taxable_sale_value" -> "taxable_value"
          [] file_header = "gst_rate" -> "gst_rate"
          [] file_header = "end_customer_state_new" -> "place_of_supply"]

\* parse_file_with_mapping: the dict of a data row, header -> cell, for the
\* cells the row has
row_dict(headers, row_data) ==
    [header \in {headers[i] : i \in 1..MinOf({Len(headers), Len(row_data)})} |->
        row_data[CHOOSE i \in 1..MinOf({Len(headers), Len(row_data)}) :
                    headers[i] = header]]

\* parse_file_with_mapping: the row keyed by canonical field; a header
\* without mapping keeps its name
canonical_row(mappings, row) ==
    LET key(file_header) == IF file_header \in DOMAIN mappings
                            THEN mappings[file_header] ELSE file_header
    IN  [field \in {key(file_header) : file_header \in DOMAIN row} |->
            row[CHOOSE file_header \in DOMAIN row : key(file_header) = field]]

\* row.get(field, default)
row_get(row, field, default) == IF field \in DOMAIN row THEN row[field] ELSE default

\* EnhancedFileParser._detect_document_type for a row without invoice_type
detect_document_type(file_type) ==
    IF file_type \in {"credit_note", "debit_note"} THEN file_type ELSE "tax_invoice"

\* len(str(gstin).strip()) == 15
GstinLength == 15

\* EnhancedFileParser._detect_gstr_section: b2b with a tax id of 15
\* characters, b2cl and b2cs by the row's own value without a tax id, None
\* ("none") with a tax id of another length
detect_gstr_section(row) ==
    LET gstin == row_get(row, "gstin_uin", Text(<<>>))
        taxable_value == parse_money_value(row_get(row, "taxable_value", Number(0)))
    IN  IF ~IsFalsy(gstin) /\ Len(strip(python_str(gstin))) = GstinLength THEN "b2b"
        ELSE IF IsFalsy(gstin) /\ taxable_value > B2CLThreshold THEN "b2cl"
        ELSE IF IsFalsy(gstin) THEN "b2cs"
        ELSE "none"

\* no line: the row was rejected (None returned) or its normalization raised
NoLine(outcome) == [outcome |-> outcome, line |-> <<>>]

\* EnhancedFileParser._parse_row_to_canonical: [outcome, line] with outcome
\* "line", "rejected" (no invoice number) or "raised" (the except branch);
\* the rate is handed to compute_tax in hundredths of a percent
parse_row_to_canonical(row, file_type, raw_data) ==
    LET invoice_no_raw == strip(python_str(row_get(row, "invoice_no", Text(<<>>))))
        taxable_value_raw == parse_money_value(row_get(row, "taxable_value", Number(0)))
        gst_rate == parse_money_value(row_get(row, "gst_rate", Number(0)))
        is_return == file_type = "tcs_sales_return" \/ taxable_value_raw < 0
        taxable_value == IF is_return /\ taxable_value_raw > 0
                         THEN -taxable_value_raw ELSE taxable_value_raw
        place_of_supply_state == row_get(row, "place_of_supply", Text(<<>>))
        state == normalize_state_to_code(place_of_supply_state)
        place_of_supply_code == IF state.code = "" THEN SellerStateCode ELSE state.code
        computed_tax == compute_tax(taxable_value, gst_rate \div 10, SellerStateCode,
                                  place_of_supply_code)
    IN  IF invoice_no_raw = <<>> THEN NoLine("rejected")
        ELSE IF state.raised THEN NoLine("raised")
        ELSE [outcome |-> "line",
              line |-> <<[invoice_no_raw |-> invoice_no_raw,
                          invoice_no_norm |-> strip(upper(invoice_no_raw)),
                          doc_type |-> detect_document_type(file_type),
                          place_of_supply_code |-> place_of_supply_code,
                          taxable_value |-> taxable_value,
                          gst_rate |-> gst_rate,
                          cgst_amount |-> computed_tax.cgst_amount,
                          sgst_amount |-> computed_tax.sgst_amount,
                          igst_amount |-> computed_tax.igst_amount,
                          is_return |-> is_return,
                          is_intra_state |-> computed_tax.is_intra_state,
                          gstr_section |-> detect_gstr_section(row),
                          file_type |-> file_type,
                          raw_data |-> raw_data]>>]

\* the lines of one data row in parse_file_with_mapping
parse_data_row(mappings, headers, row_data, file_type) ==
    parse_row_to_canonical(canonical_row(mappings, row_dict(headers, row_data)),
                           file_type, row_dict(headers, row_data)).line

\* a loop that gives up the rest of the file at the first row without line
RECURSIVE parse_file_until_failure(_, _, _, _)
parse_file_until_failure(mappings, headers, data_rows, file_type) ==
    IF data_rows = <<>> THEN <<>>
    ELSE IF parse_data_row(mappings, headers, Head(data_rows), file_type) = <<>>
    THEN <<>>
    ELSE parse_data_row(mappings, headers, Head(data_rows), file_type)
            \o parse_file_until_failure(mappings, headers, Tail(data_rows), file_type)

\* EnhancedFileParser.parse_file_with_mapping: the loop over the data rows;
\* a row without line is passed over
RECURSIVE parse_file_with_mapping(_, _, _, _)
parse_file_with_mapping(mappings, headers, data_rows, file_type) ==
    IF data_rows = <<>> THEN <<>>
    ELSE parse_data_row(mappings, headers, Head(data_rows), file_type)
            \o parse_file_with_mapping(mappings, headers, Tail(data_rows), file_type)

\* FileParser.parse_tcs_sales, one row: skipped when a value is missing, the
\* rate is no GST rate or the state is unknown; a cell the row does not have
\* is None
parse_tcs_sales_row(row, is_return) ==
    LET gst_rate == clean_numeric_value(row_get(row, "gst_rate", None))
        taxable == clean_numeric_value(row_get(row, "total_taxable_sale_value", None))
        state_name == strip(python_str(row_get(row, "end_customer_state_new", None)))
        state_code == state_code_of(state_name)
        taxable_value == IF is_return THEN -Abs(taxable.mills) ELSE taxable.mills
        tax_split == compute_tax_split(Abs(taxable_value), gst_rate.mills \div 10,
                                       SellerStateCode, state_code)
        signed(amount) == IF is_return THEN -Abs(amount) ELSE amount
    IN  IF ~gst_rate.ok \/ ~taxable.ok \/ state_name = <<>> THEN <<>>
        ELSE IF ~validate_gst_rate(gst_rate.mills) THEN <<>>
        ELSE IF state_code = "" THEN <<>>
        ELSE <<[invoice_no_raw |-> <<>>,
                invoice_no_norm |-> <<>>,
                doc_type |-> "tax_invoice",
                place_of_supply_code |-> state_code,
                taxable_value |-> taxable_value,
                gst_rate |-> gst_rate.mills,
                cgst_amount |-> signed(tax_split.cgst_amount),
                sgst_amount |-> signed(tax_split.sgst_amount),
                igst_amount |-> signed(tax_split.igst_amount),
                is_return |-> is_return,
                is_intra_state |-> tax_split.is_intra_state,
                gstr_section |-> "",
                file_type |-> IF is_return THEN "tcs_sales_return" ELSE "tcs_sales",
                raw_data |-> row]>>

\* FileParser.parse_tcs_sales: the loop over the rows
RECURSIVE parse_tcs_sales(_, _, _)
parse_tcs_sales(headers, data_rows, is_return) ==
    IF data_rows = <<>> THEN <<>>
    ELSE parse_tcs_sales_row(row_dict(headers, Head(data_rows)), is_return)
            \o parse_tcs_sales(headers, Tail(data_rows), is_return)

(***************************************************************************)
(* Parser calls                                                            *)
(***************************************************************************)
\* the largest number of data rows of a file
MaxRows == 2

Maharashtra == Text(<<"M", "a", "h", "a", "r", "a", "s", "h", "t", "r", "a">>)

Karnataka == Text(<<" ", "k", "a", "r", "n", "a", "t", "a", "k", "a", " ">>)

Rate18 == Text(<<"1", "8">>)

\* data rows: the cells under FileColumns
RowUniverse ==
    {<<Number(100000), Rate18, Maharashtra, Text(<<"i", "n", "v", "-", "1", " ">>)>>,
     <<Text(<<"(", "1", "0", "0", ".", "5", "0", ")">>), Number(18000), Karnataka,
       Text(<<"A", "1">>)>>,
     <<Number(-100000), Number(18000), Maharashtra, Number(1001000)>>,
     <<Text(<<"-", "2", ".", "5", "0">>), Text(<<"5">>),
       Text(<<"D", "e", "l", "h", "i", " ", "N", "C", "R">>), Text(<<"A", "2">>)>>,
     <<Text(<<"R", "s", " ", "1", ",", "0", "0", "0">>), Text(<<"-", "5">>), Karnataka,
       Text(<<"A", "3">>)>>,
     <<Number(50000), Rate18, Text(<<"A", "t", "l", "a", "n", "t", "i", "s">>),
       Text(<<"A", "4">>)>>,
     <<Number(100000), Rate18, Number(27000), Text(<<"A", "5">>)>>,
     <<Number(100000), Rate18, Maharashtra, None>>,
     <<Number(100000), Rate18, Maharashtra, Text(<<>>)>>,
     <<Number(100000), Rate18, Maharashtra, Text(<<" ", " ">>)>>,
     <<Number(100000), Rate18, Maharashtra>>}

FileTypes == {"tcs_sales", "tcs_sales_return", "credit_note"}

ParseInit ==
    /\ TaxIdle
    /\ RoundIdle
    /\ RangeIdle
    /\ GenIdle
    /\ SplitIdle
    /\ HeaderIdle
    /\ ServerIdle
    /\ parse_file \in [file_type : FileTypes, data_rows : {<<>>}]
    /\ parse_call = "none"
    /\ parse_lines = <<>>
    /\ parse_pc = "collect"

\* one more data row in the file
AddRow ==
    /\ parse_pc = "collect"
    /\ Len(parse_file.data_rows) < MaxRows
    /\ \E row_data \in RowUniverse :
        parse_file' = [parse_file EXCEPT !.data_rows = Append(@, row_data)]
    /\ UNCHANGED <<parse_call, parse_lines, parse_pc, tax_vars, round_vars,
                   range_vars, gen_vars, split_vars, header_vars, server_vars>>

\* EnhancedFileParser.parse_file_with_mapping(content, filename, upload_id,
\* mappings, file_type)
ParseFileWithMapping ==
    /\ parse_pc = "collect"
    /\ parse_lines' = parse_file_with_mapping(FileMappings, FileColumns,
                                              parse_file.data_rows,
                                              parse_file.file_type)
    /\ parse_call' = "parse_file_with_mapping"
    /\ parse_pc' = "parsed"
    /\ UNCHANGED <<parse_file, tax_vars, round_vars, range_vars, gen_vars,
                   split_vars, header_vars, server_vars>>

\* FileParser.parse_tcs_sales(df, upload_id, is_return) of a TCS file
ParseTcsSales ==
    /\ parse_pc = "collect"
    /\ parse_file.file_type \in {"tcs_sales", "tcs_sales_return"}
    /\ parse_lines' = parse_tcs_sales(FileColumns, parse_file.data_rows,
                                      parse_file.file_type = "tcs_sales_return")
    /\ parse_call' = "parse_tcs_sales"
    /\ parse_pc' = "parsed"
    /\ UNCHANGED <<parse_file, tax_vars, round_vars, range_vars, gen_vars,
                   split_vars, header_vars, server_vars>>

ParseNext == AddRow \/ ParseFileWithMapping \/ ParseTcsSales

SpecParse == ParseInit /\ [][ParseNext]_vars

\* whether a row has no invoice number: no such cell, a null or empty cell,
\* or only whitespace
InvoiceNumberMissing(raw_data) ==
    \/ "invoice_no" \notin DOMAIN raw_data
    \/ raw_data["invoice_no"].kind = "None"
    \/ /\ raw_data["invoice_no"].kind = "str"
       /\ \A i \in DOMAIN raw_data["invoice_no"].text :
                IsSpace(raw_data["invoice_no"].text[i])

\* C13: the row normalizer returns no line for a row whose invoice number
\* is missing: no line of parse_file_with_mapping comes from such a row.
C13_NoLineWithoutInvoiceNumber ==
    (parse_pc = "parsed" /\ parse_call = "parse_file_with_mapping") =>
        \A k \in DOMAIN parse_lines : ~InvoiceNumberMissing(parse_lines[k].raw_data)

Sign(n) == IF n < 0 THEN -1 ELSE IF n > 0 THEN 1 ELSE 0

\* the split of the parser that made the line, on the absolute taxable value
SplitOnAbsolute(line) ==
    IF parse_call = "parse_tcs_sales"
    THEN compute_tax_split(Abs(line.taxable_value), line.gst_rate \div 10,
                           SellerStateCode, line.place_of_supply_code)
    ELSE compute_tax(Abs(line.taxable_value), line.gst_rate \div 10,
                     SellerStateCode, line.place_of_supply_code)

\* C14: on every line a parser returns, each tax component is the sign of
\* taxable_value times the component of the split of the absolute taxable
\* value, and a return line has no positive taxable_value and no positive
\* tax component.
C14_TaxSignFollowsTaxableValue ==
    parse_pc = "parsed" =>
        \A k \in DOMAIN parse_lines :
            LET line == parse_lines[k]
                split == SplitOnAbsolute(line)
            IN  /\ line.cgst_amount = Sign(line.taxable_value) * split.cgst_amount
                /\ line.sgst_amount = Sign(line.taxable_value) * split.sgst_amount
                /\ line.igst_amount = Sign(line.taxable_value) * split.igst_amount
                /\ line.is_return =>
                        /\ line.taxable_value <= 0
                        /\ line.cgst_amount <= 0
                        /\ line.sgst_amount <= 0
                        /\ line.igst_amount <= 0

\* the rows of the file that the normalizer turns into a line
GoodRows ==
    SelectSeq(parse_file.data_rows,
              LAMBDA row_data :
                parse_row_to_canonical(
                    canonical_row(FileMappings, row_dict(FileColumns, row_data)),
                    parse_file.file_type, row_dict(FileColumns, row_data)).outcome = "line")

\* C15: parse_file_with_mapping passes over a row that is rejected or whose
\* normalization raises and goes on: the lines returned are the
\* normalizations of the other rows, in the order of the file.
C15_FailingRowsAreSkipped ==
    (parse_pc = "parsed" /\ parse_call = "parse_file_with_mapping") =>
        /\ Len(parse_lines) = Len(GoodRows)
        /\ \A k \in DOMAIN parse_lines :
                <<parse_lines[k]>> = parse_row_to_canonical(
                    canonical_row(FileMappings, row_dict(FileColumns, GoodRows[k])),
                    parse_file.file_type, row_dict(FileColumns, GoodRows[k])).line

\* a file whose first row is rejected or raises and whose second row gives
\* the line returned
C15_Witness ==
    /\ parse_pc = "parsed"
    /\ parse_call = "parse_file_with_mapping"
    /\ Len(parse_file.data_rows) = 2
    /\ Len(parse_lines) = 1
    /\ parse_lines[1].raw_data = row_dict(FileColumns, parse_file.data_rows[2])

(***************************************************************************)
(* Invoice range detection (invoice_range_detector.py)                     *)
(***************************************************************************)
\* longest numeric suffix the pattern accepts
MaxSuffixDigits == 12

\* DocumentRange.cancelled_list keeps this many missing serials
CancelledListLimit == 100

\* NonSequentialDoc.invoice_numbers keeps this many numbers
NonSequentialLimit == 50

DocumentTypes ==
    {"tax_invoice", "credit_note", "debit_note", "delivery_challan",
     "refund_voucher", "receipt_voucher"}

\* InvoiceRangeDetector.normalize_invoice_no
normalize_invoice_no(invoice_no) ==
    IF invoice_no = <<>> THEN <<>> ELSE upper(strip(invoice_no))

\* InvoiceRangeDetector.split_prefix_number: re.match(r'^(.+?)(\d{1,12})$'):
\* the shortest non-empty prefix followed by 1 to 12 digits up to the end
split_prefix_number(invoice_no_norm) ==
    LET n == Len(invoice_no_norm)
        Fits(k) ==
            /\ n - k <= MaxSuffixDigits
            /\ \A i \in (k + 1)..n : IsDigit(invoice_no_norm[i])
        cuts == {k \in 1..(n - 1) : Fits(k)}
    IN  IF cuts = {}
        THEN [matched |-> FALSE, prefix |-> <<>>, number |-> 0, pad_length |-> 0]
        ELSE LET k == CHOOSE c \in cuts : \A d \in cuts : c <= d
                 num_str == SubSeq(invoice_no_norm, k + 1, n)
             IN  [matched    |-> TRUE,
                  prefix     |-> SubSeq(invoice_no_norm, 1, k),
                  number     |-> int(num_str),
                  pad_length |-> Len(num_str)]

\* InvoiceRangeDetector.format_serial
format_serial(prefix, number, pad_length) ==
    prefix \o zfill(str_of_int(number), pad_length)

\* the keys of a dict built by first insertion, in insertion order: the
\* entries of keys at the positions where a key occurs for the first time
FirstSeen(keys) ==
    LET firsts == {i \in DOMAIN keys : \A j \in 1..(i - 1) : keys[j] # keys[i]}
    IN  [n \in 1..Cardinality(firsts) |->
            keys[CHOOSE i \in firsts : Cardinality({f \in firsts : f < i}) = n - 1]]

SeqMap(Op(_), seq) == [i \in DOMAIN seq |-> Op(seq[i])]

\* sorted(set): ascending
RECURSIVE sorted_set(_)
sorted_set(S) ==
    IF S = {} THEN <<>>
    ELSE LET m == CHOOSE x \in S : \A y \in S : x <= y
         IN  <<m>> \o sorted_set(S \ {m})

\* sorted(list): ascending, duplicates kept
RECURSIVE sorted_list(_)
sorted_list(seq) ==
    IF seq = <<>> THEN <<>>
    ELSE LET i == CHOOSE a \in DOMAIN seq : \A b \in DOMAIN seq : seq[a] <= seq[b]
         IN  <<seq[i]>> \o sorted_list(SubSeq(seq, 1, i - 1) \o SubSeq(seq, i + 1, Len(seq)))

\* the lines detect_ranges reads: those with a non-empty invoice number, each
\* with its normalized number and the result of the split (lines 68-79)
range_entries(invoice_lines) ==
    LET Entry(line) ==
            LET norm == normalize_invoice_no(line.invoice_no_raw)
                sp   == split_prefix_number(norm)
            IN  [raw |-> line.invoice_no_raw, norm |-> norm, doc_type |-> line.doc_type,
                 matched |-> sp.matched, prefix |-> sp.prefix,
                 number |-> sp.number, pad |-> sp.pad_length]
    IN  SeqMap(Entry, SelectSeq(invoice_lines, LAMBDA line : line.invoice_no_raw # <<>>))

\* the keys of sequential_groups, (doc_type_str, prefix), in the order the
\* nested dicts are walked: doc types by first appearance, within a doc type
\* the prefixes by first appearance
sequential_group_keys(entries) ==
    LET seqs == SelectSeq(entries, LAMBDA en : en.matched)
        doc_types == FirstSeen(SeqMap(LAMBDA en : en.doc_type, seqs))
        KeysOf(dt) ==
            SeqMap(LAMBDA pf : [doc_type |-> dt, prefix |-> pf],
                   FirstSeen(SeqMap(LAMBDA en : en.prefix,
                                    SelectSeq(seqs, LAMBDA en : en.doc_type = dt))))
    IN  Flatten(SeqMap(KeysOf, doc_types))

\* sequential_groups[doc_type_str][prefix]
group_invoices(entries, key) ==
    SelectSeq(entries, LAMBDA en :
        en.matched /\ en.doc_type = key.doc_type /\ en.prefix = key.prefix)

\* the numbers of a group with duplicates kept
all_numbers(invoices) == sorted_list(SeqMap(LAMBDA inv : inv.number, invoices))

\* the distinct numbers of a group in the order of the input, not sorted
unique_numbers_unsorted(invoices) == FirstSeen(SeqMap(LAMBDA inv : inv.number, invoices))

\* numbers = sorted(set(inv["number"] for inv in invoices_sorted))
unique_numbers(invoices) == sorted_set({invoices[i].number : i \in DOMAIN invoices})

\* last - first, one short
expected_count_exclusive(first_serial, last_serial) == last_serial - first_serial

\* expected_count = last_serial - first_serial + 1
expected_count(first_serial, last_serial) == last_serial - first_serial + 1

\* for i in range(first_serial, last_serial + 1): if i not in numbers: append.
\* The walk over first_serial..last_serial is split in halves, which visits
\* the serials in the same ascending order.
RECURSIVE cancelled_numbers(_, _, _)
cancelled_numbers(first_serial, last_serial, numbers) ==
    IF first_serial > last_serial THEN <<>>
    ELSE IF first_serial = last_serial
         THEN (IF first_serial \in SeqRange(numbers) THEN <<>> ELSE <<first_serial>>)
         ELSE LET mid == (first_serial + last_serial) \div 2
              IN  cancelled_numbers(first_serial, mid, numbers)
                    \o cancelled_numbers(mid + 1, last_serial, numbers)

\* the compression loop over cancelled_list[lo..hi]: the open range grows
\* while the next missing serial follows its end (num == range_end + 1), and
\* is closed and a new one opened otherwise.  The walk is split in halves,
\* which visits the serials in the same ascending order: the range open at
\* the end of the first half goes on into the second half when the next
\* serial follows its end.
RECURSIVE compress_cancelled(_, _, _)
compress_cancelled(cancelled_list, lo, hi) ==
    IF lo = hi THEN <<[start |-> cancelled_list[lo], end |-> cancelled_list[lo]]>>
    ELSE LET mid == (lo + hi) \div 2
             left == compress_cancelled(cancelled_list, lo, mid)
             right == compress_cancelled(cancelled_list, mid + 1, hi)
             open_range == left[Len(left)]
         IN  IF right[1].start = open_range.end + 1
             THEN SubSeq(left, 1, Len(left) - 1)
                    \o <<[start |-> open_range.start, end |-> right[1].end]>>
                    \o Tail(right)
             ELSE left \o right

\* a compression that never extends the open range
cancelled_ranges_unmerged(cancelled_list) ==
    [k \in DOMAIN cancelled_list |->
        [start |-> cancelled_list[k], end |-> cancelled_list[k]]]

\* cancelled_ranges: the missing serials compressed into [start, end] ranges
cancelled_ranges_of(cancelled_list) ==
    IF cancelled_list = <<>> THEN <<>>
    ELSE compress_cancelled(cancelled_list, 1, Len(cancelled_list))

\* DocumentType(doc_type_str), TAX_INVOICE when the string names no member
document_type_of(doc_type_str) ==
    IF doc_type_str \in DocumentTypes THEN doc_type_str ELSE "tax_invoice"

\* the DocumentRange of one (doc_type, prefix) group
document_range(upload_id, key, invoices) ==
    LET numbers == unique_numbers(invoices)
        first_serial == numbers[1]
        last_serial == numbers[Len(numbers)]
        cancelled_list == cancelled_numbers(first_serial, last_serial, numbers)
        pad_length == MaxOf({invoices[i].pad : i \in DOMAIN invoices})
    IN  [upload_id        |-> upload_id,
         doc_type         |-> document_type_of(key.doc_type),
         prefix           |-> key.prefix,
         first_serial     |-> first_serial,
         last_serial      |-> last_serial,
         found_count      |-> Len(numbers),
         expected_count   |-> expected_count(first_serial, last_serial),
         cancelled_count  |-> Len(cancelled_list),
         cancelled_list   |-> SubSeq(cancelled_list, 1,
                                IF Len(cancelled_list) < CancelledListLimit
                                THEN Len(cancelled_list) ELSE CancelledListLimit),
         cancelled_ranges |-> cancelled_ranges_of(cancelled_list),
         doc_from         |-> format_serial(key.prefix, first_serial, pad_length),
         doc_to           |-> format_serial(key.prefix, last_serial, pad_length)]

\* InvoiceRangeDetector.detect_ranges: [ranges, non_sequential]
detect_ranges(upload_id, invoice_lines) ==
    LET entries == range_entries(invoice_lines)
        keys == sequential_group_keys(entries)
        nonseq == SelectSeq(entries, LAMBDA en : ~en.matched)
        nonseq_types == FirstSeen(SeqMap(LAMBDA en : en.doc_type, nonseq))
        NonSeq(dt) ==
            LET invoice_numbers ==
                    SeqMap(LAMBDA en : en.raw,
                           SelectSeq(nonseq, LAMBDA en : en.doc_type = dt))
            IN  [upload_id |-> upload_id,
                 doc_type |-> document_type_of(dt),
                 invoice_numbers |->
                    SubSeq(invoice_numbers, 1,
                           IF Len(invoice_numbers) < NonSequentialLimit
                           THEN Len(invoice_numbers) ELSE NonSequentialLimit),
                 count |-> Len(invoice_numbers)]
    IN  [ranges |->
            SeqMap(LAMBDA key : document_range(upload_id, key, group_invoices(entries, key)),
                   keys),
         non_sequential |-> SeqMap(NonSeq, nonseq_types)]

(***************************************************************************)
(* Calls of split_prefix_number                                            *)
(***************************************************************************)
\* the characters of the short document numbers: a letter, a separator, two
\* digits
SplitChars == {"A", "-", "0", "7"}

\* a run of 11 digits; leading zeros keep the value of the suffix small
LongRun == <<"0", "0", "0", "0", "0", "0", "0", "0", "0", "0", "0">>

\* normalized document numbers: every string of one to three SplitChars, and
\* numbers that end in a run of 12 or 13 digits, with and without a prefix
SplitNumbers ==
    UNION {[1..n -> SplitChars] : n \in 1..3}
        \cup {front \o LongRun \o back :
                front \in {<<>>, <<"A">>, <<"A", "-">>},
                back \in {<<"7">>, <<"0", "7">>}}

SplitInit ==
    /\ TaxIdle
    /\ RoundIdle
    /\ RangeIdle
    /\ GenIdle
    /\ HeaderIdle
    /\ ServerIdle
    /\ ParseIdle
    /\ split_arg \in SplitNumbers
    /\ split_result = NoSplit
    /\ split_pc = "ready"

CallSplitPrefixNumber ==
    /\ split_pc = "ready"
    /\ split_result' = split_prefix_number(split_arg)
    /\ split_pc' = "split"
    /\ UNCHANGED <<split_arg, tax_vars, round_vars, range_vars, gen_vars,
                   header_vars, server_vars, parse_vars>>

SplitNext == CallSplitPrefixNumber

SpecSplit == SplitInit /\ [][SplitNext]_vars

\* length of the longest run of digits a text ends in
RECURSIVE TrailingDigits(_)
TrailingDigits(str) ==
    IF str = <<>> \/ ~IsDigit(str[Len(str)]) THEN 0
    ELSE 1 + TrailingDigits(SubSeq(str, 1, Len(str) - 1))

\* C18: split_prefix_number splits every normalized document number that
\* ends in a digit: when its longest trailing run of digits has at most 12
\* digits, the numeric suffix is the whole run (its value and its length) and
\* the prefix is the text before the run, which ends in no digit; document
\* numbers that consist only of digits included.
C18_SuffixIsWholeTrailingRun ==
    (split_pc = "split"
        /\ TrailingDigits(split_arg) \in 1..MaxSuffixDigits) =>
        LET run == TrailingDigits(split_arg)
            cut == Len(split_arg) - run
        IN  /\ split_result.matched
            /\ split_result.prefix = SubSeq(split_arg, 1, cut)
            /\ split_result.number = int(SubSeq(split_arg, cut + 1, Len(split_arg)))
            /\ split_result.pad_length = run

(***************************************************************************)
(* Range detection calls                                                   *)
(***************************************************************************)
\* number of lines handed to detect_ranges one by one
MaxRangeLines == 3

\* INV001 INV002 INV004 INV005, a second spelling of INV002 (in lower case,
\* after a blank, padded to two digits), INV150 (more than 100 serials after
\* INV005), a credit note, a number with no digits
RangeLineUniverse ==
    {[invoice_no_raw |-> <<"I", "N", "V", "0", "0", "1">>, doc_type |-> "tax_invoice"],
     [invoice_no_raw |-> <<"I", "N", "V", "0", "0", "2">>, doc_type |-> "tax_invoice"],
     [invoice_no_raw |-> <<"I", "N", "V", "0", "0", "4">>, doc_type |-> "tax_invoice"],
     [invoice_no_raw |-> <<"I", "N", "V", "0", "0", "5">>, doc_type |-> "tax_invoice"],
     [invoice_no_raw |-> <<" ", "i", "n", "v", "0", "2">>, doc_type |-> "tax_invoice"],
     [invoice_no_raw |-> <<"I", "N", "V", "1", "5", "0">>, doc_type |-> "tax_invoice"],
     [invoice_no_raw |-> <<"C", "N", "-", "7">>, doc_type |-> "credit_note"],
     [invoice_no_raw |-> <<"X", "Y">>, doc_type |-> "tax_invoice"]}

\* lists of lines handed over whole: the documented example INV001, INV002,
\* INV004, INV005; the list INV005, inv02, INV002, INV001, in which one
\* invoice comes twice; and one more delivery challan than
\* NonSequentialLimit, numbered XA .. XZ, YA .. YY
RangeBatches ==
    {[n \in 1..4 |->
        [invoice_no_raw |-> <<"I", "N", "V", "0", "0", DigitChars[IF n < 3 THEN n + 1 ELSE n + 2]>>,
         doc_type |-> "tax_invoice"]],
     [n \in 1..4 |->
        [invoice_no_raw |->
            IF n = 2 THEN <<" ", "i", "n", "v", "0", "2">>
            ELSE <<"I", "N", "V", "0", "0", DigitChars[IF n = 1 THEN 6 ELSE 7 - n]>>,
         doc_type |-> "tax_invoice"]],
     [n \in 1..(NonSequentialLimit + 1) |->
        [invoice_no_raw |-> <<IF n <= 26 THEN "X" ELSE "Y", UpperChars[((n - 1) % 26) + 1]>>,
         doc_type |-> "delivery_challan"]]}

UploadId == "upload-1"

RangeInit ==
    /\ TaxIdle
    /\ RoundIdle
    /\ GenIdle
    /\ IntakeIdle
    /\ range_lines = <<>>
    /\ document_ranges = <<>>
    /\ non_sequential_docs = <<>>
    /\ range_pc = "collect"

AddRangeLine ==
    /\ range_pc = "collect"
    /\ Len(range_lines) < MaxRangeLines
    /\ \E line \in RangeLineUniverse : range_lines' = Append(range_lines, line)
    /\ UNCHANGED <<document_ranges, non_sequential_docs, range_pc, tax_vars, round_vars, gen_vars, intake_vars>>

AddRangeBatch ==
    /\ range_pc = "collect"
    /\ range_lines = <<>>
    /\ \E batch \in RangeBatches : range_lines' = batch
    /\ UNCHANGED <<document_ranges, non_sequential_docs, range_pc,
                   tax_vars, round_vars, gen_vars, intake_vars>>

DetectRanges ==
    /\ range_pc = "collect"
    /\ LET result == detect_ranges(UploadId, range_lines)
       IN  /\ document_ranges' = result.ranges
           /\ non_sequential_docs' = result.non_sequential
    /\ range_pc' = "detected"
    /\ UNCHANGED <<range_lines, tax_vars, round_vars, gen_vars, intake_vars>>

RangeNext == AddRangeLine \/ AddRangeBatch \/ DetectRanges

SpecRange == RangeInit /\ [][RangeNext]_vars

\* C4 as stated: for every emitted DocumentRange, found_count +
\* len(cancelled_list) = expected_count = last_serial - first_serial + 1.
C4_FoundPlusListedIsExpected ==
    range_pc = "detected" =>
        \A k \in DOMAIN document_ranges :
            LET r == document_ranges[k]
            IN  /\ r.found_count + Len(r.cancelled_list) = r.expected_count
                /\ r.expected_count = r.last_serial - r.first_serial + 1

\* C4 as amended: for every emitted DocumentRange, found_count +
\* cancelled_count = expected_count = last_serial - first_serial + 1, and
\* cancelled_list holds min(cancelled_count, 100) serials, so that found_count +
\* len(cancelled_list) = expected_count exactly when at most 100 are missing.
C4_FoundPlusCancelledCountIsExpected ==
    range_pc = "detected" =>
        \A k \in DOMAIN document_ranges :
            LET r == document_ranges[k]
            IN  /\ r.found_count + r.cancelled_count = r.expected_count
                /\ r.expected_count = r.last_serial - r.first_serial + 1
                /\ Len(r.cancelled_list) =
                        (IF r.cancelled_count < CancelledListLimit
                         THEN r.cancelled_count ELSE CancelledListLimit)
                /\ (r.found_count + Len(r.cancelled_list) = r.expected_count)
                        <=> (r.cancelled_count <= CancelledListLimit)

\* a range with more than 100 missing serials has been emitted
C4_Witness ==
    /\ range_pc = "detected"
    /\ \E k \in DOMAIN document_ranges :
            /\ document_ranges[k].cancelled_count > CancelledListLimit
            /\ document_ranges[k].found_count >= 2

\* the distinct serials the lines of range_lines carry for one (doc type,
\* prefix) pair: read off the input, not off the detector's result
SerialsOf(doc_type, prefix) ==
    {split_prefix_number(normalize_invoice_no(range_lines[i].invoice_no_raw)).number :
        i \in {j \in DOMAIN range_lines :
                /\ range_lines[j].doc_type = doc_type
                /\ LET sp == split_prefix_number(
                                normalize_invoice_no(range_lines[j].invoice_no_raw))
                   IN  sp.matched /\ sp.prefix = prefix}}

LinesOf(doc_type, prefix) ==
    {j \in DOMAIN range_lines :
        /\ range_lines[j].doc_type = doc_type
        /\ LET sp == split_prefix_number(
                        normalize_invoice_no(range_lines[j].invoice_no_raw))
           IN  sp.matched /\ sp.prefix = prefix}

RangeExample ==
    {<<"I", "N", "V", "0", "0", "1">>, <<"I", "N", "V", "0", "0", "2">>,
     <<"I", "N", "V", "0", "0", "4">>, <<"I", "N", "V", "0", "0", "5">>}

\* C5: within each (doc_type, prefix) group duplicates of a document number
\* collapse: there is one range per group, found_count is the number of
\* distinct serials, first_serial and last_serial are their minimum and
\* maximum, and the missing serials (counted by cancelled_count, spanned by
\* cancelled_ranges, listed from the smallest in cancelled_list) are exactly
\* the integers of [first_serial, last_serial] outside the set of distinct
\* serials, ascending; INV001, INV002, INV004, INV005 give one range with
\* missing [3], found_count 4 and expected_count 5.
C5_DistinctSerialsAndExactMissing ==
    range_pc = "detected" =>
        /\ \A k \in DOMAIN document_ranges :
            LET r == document_ranges[k]
                serials == SerialsOf(r.doc_type, r.prefix)
                missing == {i \in r.first_serial..r.last_serial : i \notin serials}
                spanned == UNION {r.cancelled_ranges[n].start..r.cancelled_ranges[n].end :
                                    n \in DOMAIN r.cancelled_ranges}
            IN  /\ serials # {}
                /\ r.found_count = Cardinality(serials)
                /\ r.first_serial = MinOf(serials)
                /\ r.last_serial = MaxOf(serials)
                /\ r.cancelled_count = Cardinality(missing)
                /\ spanned = missing
                /\ \A n \in DOMAIN r.cancelled_ranges :
                        /\ r.cancelled_ranges[n].start <= r.cancelled_ranges[n].end
                        /\ n > 1 => r.cancelled_ranges[n - 1].end + 1 < r.cancelled_ranges[n].start
                /\ \A n \in DOMAIN r.cancelled_list :
                        n > 1 => r.cancelled_list[n - 1] < r.cancelled_list[n]
                /\ {r.cancelled_list[n] : n \in DOMAIN r.cancelled_list} =
                        {m \in missing :
                            /\ r.cancelled_list # <<>>
                            /\ m <= r.cancelled_list[Len(r.cancelled_list)]}
                /\ \A j \in DOMAIN document_ranges :
                        (document_ranges[j].doc_type = r.doc_type
                            /\ document_ranges[j].prefix = r.prefix) => j = k
        /\ {range_lines[i].invoice_no_raw : i \in DOMAIN range_lines} = RangeExample =>
                /\ Len(document_ranges) = 1
                /\ document_ranges[1].cancelled_list = <<3>>
                /\ document_ranges[1].found_count = 4
                /\ document_ranges[1].expected_count = 5

\* a group in which one document number occurs twice and a serial is missing
C5_Witness ==
    /\ range_pc = "detected"
    /\ \E k \in DOMAIN document_ranges :
            LET r == document_ranges[k]
            IN  /\ Cardinality(LinesOf(r.doc_type, r.prefix)) > r.found_count
                /\ r.cancelled_list # <<>>
                /\ r.found_count >= 3

\* C25: for every DocumentRange, cancelled_ranges is an ascending list of
\* intervals with start <= end, consecutive intervals are separated by at
\* least one found serial (end + 1 < next start), and the intervals together
\* hold exactly the serials of [first_serial, last_serial] that no line of
\* the group has.
C25_CancelledRangesAreMaximalIntervals ==
    range_pc = "detected" =>
        \A k \in DOMAIN document_ranges :
            LET r == document_ranges[k]
                intervals == r.cancelled_ranges
                found == SerialsOf(r.doc_type, r.prefix)
            IN  /\ \A n \in DOMAIN intervals : intervals[n].start <= intervals[n].end
                /\ \A n \in 1..(Len(intervals) - 1) :
                        intervals[n].end + 1 < intervals[n + 1].start
                /\ \A i \in r.first_serial..r.last_serial :
                        i \notin found <=>
                            \E n \in DOMAIN intervals :
                                intervals[n].start <= i /\ i <= intervals[n].end
                /\ \A n \in DOMAIN intervals :
                        r.first_serial < intervals[n].start
                            /\ intervals[n].end < r.last_serial

\* a range whose missing serials fall into two intervals, one of them of
\* more than one serial
C25_Witness ==
    /\ range_pc = "detected"
    /\ \E k \in DOMAIN document_ranges :
            LET intervals == document_ranges[k].cancelled_ranges
            IN  /\ Len(intervals) >= 2
                /\ \E n \in DOMAIN intervals : intervals[n].start < intervals[n].end

\* the entries of a list of ranges, whatever their order
RangeSet(ranges) == {ranges[k] : k \in DOMAIN ranges}

\* the lines with two of them exchanged
SwapLines(lines, i, j) == [lines EXCEPT ![i] = lines[j], ![j] = lines[i]]

\* C17: detect_ranges gives the same ranges for every order of the same
\* lines: the same (doc_type, prefix) groups, each with the same first and
\* last serial, counts, missing serials and doc_from / doc_to.  Every
\* reordering is a chain of exchanges of two lines, and every list of lines
\* is a state, so it is stated for one exchange.
C17_RangesIndependentOfOrder ==
    range_pc = "detected" =>
        \A i, j \in DOMAIN range_lines :
            i < j =>
                LET other == detect_ranges(UploadId, SwapLines(range_lines, i, j)).ranges
                IN  /\ Len(other) = Len(document_ranges)
                    /\ RangeSet(other) = RangeSet(document_ranges)

\* ranges of two groups have been detected from lines in which a group's
\* larger serial comes before a smaller one written with another width
C17_Witness ==
    /\ range_pc = "detected"
    /\ Len(document_ranges) >= 2
    /\ \E i, j \in DOMAIN range_lines :
            LET a == split_prefix_number(normalize_invoice_no(range_lines[i].invoice_no_raw))
                b == split_prefix_number(normalize_invoice_no(range_lines[j].invoice_no_raw))
            IN  /\ i < j
                /\ a.matched /\ b.matched
                /\ range_lines[i].doc_type = range_lines[j].doc_type
                /\ a.prefix = b.prefix
                /\ a.number > b.number
                /\ a.pad_length # b.pad_length

\* whether a line carries a document number that ends in no digit
NonSequentialLine(line) ==
    /\ line.invoice_no_raw # <<>>
    /\ TrailingDigits(normalize_invoice_no(line.invoice_no_raw)) = 0

\* the numbers the NonSequentialDoc entries of a doc type list
ReportedNonSequential(doc_type) ==
    Flatten([k \in DOMAIN non_sequential_docs |->
                IF non_sequential_docs[k].doc_type = doc_type
                THEN non_sequential_docs[k].invoice_numbers ELSE <<>>])

\* C19: every document number without a trailing run of digits is reported
\* as non-sequential under its doc type, with one entry per such document
\* number (per line or per distinct number), and the ranges are those of the
\* other lines alone: such a number
\* adds nothing to the serials, counts or missing serials of a range.
C19_NonSequentialListedOnceEach ==
    range_pc = "detected" =>
        /\ \A doc_type \in DocumentTypes :
                LET at == {j \in DOMAIN range_lines :
                                /\ range_lines[j].doc_type = doc_type
                                /\ NonSequentialLine(range_lines[j])}
                    numbers == {range_lines[i].invoice_no_raw : i \in at}
                    reported == ReportedNonSequential(doc_type)
                IN  /\ SeqRange(reported) = numbers
                    /\ Len(reported) \in {Cardinality(at), Cardinality(numbers)}
        /\ document_ranges =
                detect_ranges(UploadId,
                    SelectSeq(range_lines, LAMBDA line : ~NonSequentialLine(line))).ranges

(***************************************************************************)
(* Canonical invoice lines (parser_enhanced.py, models_canonical.py)       *)
(***************************************************************************)

GSTIN_A == <<"2", "9", "A", "A", "A", "C", "I", "1", "1", "1", "1", "H", "1", "Z", "5">>

GSTIN_B == <<"0", "7", "a", "a", "r", "c", "m", "9", "3", "3", "2", "r", "1", "c", "q">>

GSTIN_LONG == GSTIN_A \o <<"9">>

GSTIN_SHORT == <<"U", "R", "P">>

NoGstin == <<>>

InvoiceDate == <<"2025", "01", "15">>

\* the CanonicalInvoiceLine built by _parse_row_to_canonical, as the dict the
\* generators read; taxable_value carries its sign, a line has no reason,
\* description, uqc, quantity or shipping details
CanonicalLine(invoice_no, doc_type, gstin_uin, place_of_supply_code,
              taxable_value, gst_rate, hsn_code) ==
    LET invoice_no_raw == strip(invoice_no)
        tax == compute_tax(taxable_value, gst_rate, SellerStateCode,
                           place_of_supply_code)
    IN  [invoice_no_raw        |-> invoice_no_raw,
         invoice_no_norm       |-> strip(upper(invoice_no_raw)),
         doc_type              |-> doc_type,
         invoice_date          |-> InvoiceDate,
         gstin_uin             |-> gstin_uin,
         place_of_supply_code  |-> place_of_supply_code,
         taxable_value         |-> taxable_value,
         gst_rate              |-> gst_rate,
         computed_tax          |-> tax,
         is_return             |-> taxable_value < 0,
         is_reverse_charge     |-> FALSE,
         is_intra_state        |-> tax.is_intra_state,
         origin                |-> "manual",
         hsn_code              |-> hsn_code,
         gstr_section          |-> detect_gstr_section(
                                       [gstin_uin |-> Text(gstin_uin),
                                        taxable_value |-> Number(taxable_value)]),
         is_export             |-> FALSE,
         export_type           |-> "",
         is_advance_payment    |-> FALSE,
         is_advance_adjustment |-> FALSE,
         is_exempted           |-> FALSE,
         is_nil_rated          |-> FALSE,
         is_non_gst            |-> FALSE]

\* Python's order of the strings that are sorted
TextOrder == <<"", "1006", "27", "29", "8517", "INTER", "INTRA">>

TextRank(text) == CHOOSE i \in DOMAIN TextOrder : TextOrder[i] = text

\* tuple comparison, a < b
RECURSIVE TupleLess(_, _)
TupleLess(a, b) ==
    IF a = <<>> \/ b = <<>> THEN a = <<>> /\ b # <<>>
    ELSE IF Head(a) # Head(b) THEN Head(a) < Head(b)
    ELSE TupleLess(Tail(a), Tail(b))

\* list.sort(key=...): stable, ascending in the key
RECURSIVE sort_by(_, _)
sort_by(Key(_), seq) ==
    IF seq = <<>> THEN <<>>
    ELSE LET front == sort_by(Key, SubSeq(seq, 1, Len(seq) - 1))
             x == seq[Len(seq)]
             n == Cardinality({i \in DOMAIN front : ~TupleLess(Key(x), Key(front[i]))})
         IN  SubSeq(front, 1, n) \o <<x>> \o SubSeq(front, n + 1, Len(front))

RECURSIVE SumSeq(_)
SumSeq(seq) == IF seq = <<>> THEN 0 ELSE Head(seq) + SumSeq(Tail(seq))

\* sum(parse_money(line.get("taxable_value", 0)) for line in lines), in
\* thousandths of a rupee
sum_taxable_value(lines) == SumSeq(SeqMap(LAMBDA line : line.taxable_value, lines))

\* the same sum for one component of computed_tax, in paise
sum_igst(lines) == SumSeq(SeqMap(LAMBDA line : line.computed_tax.igst_amount, lines))

sum_cgst(lines) == SumSeq(SeqMap(LAMBDA line : line.computed_tax.cgst_amount, lines))

sum_sgst(lines) == SumSeq(SeqMap(LAMBDA line : line.computed_tax.sgst_amount, lines))

\* the lines of a defaultdict(list) group, in the order they were appended
group_lines(Key(_), lines, key) == SelectSeq(lines, LAMBDA line : Key(line) = key)

\* the keys of the defaultdict, in insertion order
group_keys(Key(_), lines) == FirstSeen(SeqMap(Key, lines))

\* line.get("gstin_uin") and len(str(line.get("gstin_uin", "")).strip()) == 15
has_gstin(line) ==
    line.gstin_uin # <<>> /\ Len(strip(line.gstin_uin)) = GstinLength

\* not line.get("gstin_uin") or len(str(line.get("gstin_uin", "")).strip()) < 15
is_unregistered(line) ==
    line.gstin_uin = <<>> \/ Len(strip(line.gstin_uin)) < GstinLength

\* CompleteGSTR1Generator._format_date: YYYY-MM-DD to DD-MM-YYYY
format_date(date_value) ==
    IF date_value = <<>> THEN <<>>
    ELSE IF Len(date_value) = 3 /\ Len(date_value[1]) = 4
         THEN <<date_value[3], date_value[2], date_value[1]>>
         ELSE date_value

\* CompleteGSTR1Generator._aggregate_by_rate
aggregate_by_rate(lines) ==
    LET rates == sorted_set({lines[i].gst_rate : i \in DOMAIN lines})
        Item(num) ==
            LET rate_lines == group_lines(LAMBDA line : line.gst_rate, lines, rates[num])
            IN  [num |-> num,
                 itm_det |->
                    [rt    |-> rates[num],
                     txval |-> format_for_json(parse_money(sum_taxable_value(rate_lines))),
                     iamt  |-> format_for_json(DecPaise(sum_igst(rate_lines))),
                     camt  |-> format_for_json(DecPaise(sum_cgst(rate_lines))),
                     samt  |-> format_for_json(DecPaise(sum_sgst(rate_lines))),
                     csamt |-> format_for_json(DecPaise(ZERO))]]
    IN  [num \in DOMAIN rates |-> Item(num)]

(***************************************************************************)
(* CompleteGSTR1Generator (gstr1_complete_generator.py)                    *)
(***************************************************************************)
\* the AI enhancement hooks return the lines they are given
gemini_enhance_b2b_data(lines) == lines

gemini_enhance_b2c_data(lines) == lines

gemini_enhance_credit_note_data(lines) == lines

gemini_enhance_export_data(lines) == lines

gemini_validate_hsn_codes(lines) == lines

\* if use_gemini and lines: lines = hook(lines)
enhanced(Hook(_), use_gemini, lines) ==
    IF use_gemini /\ lines # <<>> THEN Hook(lines) ELSE lines

\* the lines generate_b2b reports
b2b_lines(invoice_lines) ==
    SelectSeq(invoice_lines, LAMBDA line :
        has_gstin(line) /\ line.doc_type = "tax_invoice")

\* the HEADER of one invoice: its first line gives number, date and place
invoice_header(inv_lines) ==
    LET first_line == inv_lines[1]
    IN  [inum  |-> first_line.invoice_no_raw,
         idt   |-> format_date(first_line.invoice_date),
         val   |-> format_for_json(parse_money(sum_taxable_value(inv_lines))),
         itms  |-> aggregate_by_rate(inv_lines)]

\* CompleteGSTR1Generator.generate_b2b
generate_b2b(invoice_lines, use_gemini) ==
    LET lines_b2b == enhanced(gemini_enhance_b2b_data, use_gemini, b2b_lines(invoice_lines))
        Ctin(line) == upper(strip(line.gstin_uin))
        Inum(line) == line.invoice_no_norm
        Buyer(ctin) ==
            LET lines == group_lines(Ctin, lines_b2b, ctin)
                Invoice(inum) ==
                    LET inv_lines == group_lines(Inum, lines, inum)
                        first_line == inv_lines[1]
                        header == invoice_header(inv_lines)
                    IN  [inum    |-> header.inum,
                         idt     |-> header.idt,
                         val     |-> header.val,
                         pos     |-> first_line.place_of_supply_code,
                         rchrg   |-> IF first_line.is_reverse_charge THEN "Y" ELSE "N",
                         inv_typ |-> "R",
                         itms    |-> header.itms]
            IN  [ctin |-> ctin, inv |-> SeqMap(Invoice, group_keys(Inum, lines))]
    IN  SeqMap(Buyer, group_keys(Ctin, lines_b2b))

\* the unregistered buyers' tax-invoice lines, which b2cl and b2cs share
b2c_lines(invoice_lines) ==
    SelectSeq(invoice_lines, LAMBDA line :
        is_unregistered(line) /\ line.doc_type = "tax_invoice")

\* total_val of the invoice a line belongs to, over the b2c lines
b2c_invoice_total(invoice_lines, inum) ==
    sum_taxable_value(group_lines(LAMBDA line : line.invoice_no_norm,
                                  b2c_lines(invoice_lines), inum))

\* a line's own value against the threshold, not its invoice's
is_large_invoice_per_line(invoice_lines, line) == line.taxable_value > B2CLThreshold

\* total_val > Decimal("250000")
is_large_invoice(invoice_lines, line) ==
    b2c_invoice_total(invoice_lines, line.invoice_no_norm) > B2CLThreshold

\* b2cl_lines: the groups over the threshold, extended invoice by invoice
b2cl_lines(invoice_lines) ==
    LET Inum(line) == line.invoice_no_norm
        candidates == b2c_lines(invoice_lines)
        Group(inum) ==
            LET lines == group_lines(Inum, candidates, inum)
            IN  IF is_large_invoice(invoice_lines, lines[1]) THEN lines ELSE <<>>
    IN  Flatten(SeqMap(Group, group_keys(Inum, candidates)))

\* b2cs_lines: the groups with total_val <= Decimal("250000")
b2cs_lines(invoice_lines) ==
    LET Inum(line) == line.invoice_no_norm
        candidates == b2c_lines(invoice_lines)
        Group(inum) ==
            LET lines == group_lines(Inum, candidates, inum)
            IN  IF is_large_invoice(invoice_lines, lines[1]) THEN <<>> ELSE lines
    IN  Flatten(SeqMap(Group, group_keys(Inum, candidates)))

\* CompleteGSTR1Generator.generate_b2cl
generate_b2cl(invoice_lines, use_gemini) ==
    LET lines_b2cl == enhanced(gemini_enhance_b2c_data, use_gemini, b2cl_lines(invoice_lines))
        Pos(line) == line.place_of_supply_code
        Inum(line) == line.invoice_no_norm
        State(pos) ==
            LET lines == group_lines(Pos, lines_b2cl, pos)
                Invoice(inum) == invoice_header(group_lines(Inum, lines, inum))
            IN  [pos |-> pos, inv |-> SeqMap(Invoice, group_keys(Inum, lines))]
    IN  SeqMap(State, group_keys(Pos, lines_b2cl))

\* "INTRA" if is_intra else "INTER"
supply_type(line) == IF line.is_intra_state THEN "INTRA" ELSE "INTER"

\* "E" if line.get("origin") == "meesho" else "OE"
ecommerce_type(line) == IF line.origin = "meesho" THEN "E" ELSE "OE"

EcommerceGstin == "07AARCM9332R1CQ"

\* CompleteGSTR1Generator.generate_b2cs
generate_b2cs(invoice_lines, use_gemini) ==
    LET lines_b2cs == enhanced(gemini_enhance_b2c_data, use_gemini, b2cs_lines(invoice_lines))
        Key(line) ==
            [sply_ty |-> supply_type(line),
             pos     |-> line.place_of_supply_code,
             typ     |-> ecommerce_type(line),
             rt      |-> line.gst_rate,
             etin    |-> IF ecommerce_type(line) = "E" THEN EcommerceGstin ELSE ""]
        Entry(key) ==
            LET lines == group_lines(Key, lines_b2cs, key)
            IN  [sply_ty |-> key.sply_ty,
                 pos     |-> key.pos,
                 typ     |-> key.typ,
                 rt      |-> key.rt,
                 txval   |-> format_for_json(parse_money(sum_taxable_value(lines))),
                 iamt    |-> format_for_json(DecPaise(sum_igst(lines))),
                 camt    |-> format_for_json(DecPaise(sum_cgst(lines))),
                 samt    |-> format_for_json(DecPaise(sum_sgst(lines))),
                 csamt   |-> format_for_json(DecPaise(ZERO)),
                 etin    |-> key.etin]
        SortKey(x) == <<TextRank(x.sply_ty), TextRank(x.pos), x.rt>>
    IN  sort_by(SortKey, SeqMap(Entry, group_keys(Key, lines_b2cs)))

IsNote(line) == line.doc_type \in {"credit_note", "debit_note"}

\* the lines generate_cdnr reports
cdnr_lines(invoice_lines) ==
    SelectSeq(invoice_lines, LAMBDA line : has_gstin(line) /\ IsNote(line))

\* the lines generate_cdnur reports
cdnur_lines(invoice_lines) ==
    SelectSeq(invoice_lines, LAMBDA line : is_unregistered(line) /\ IsNote(line))

note_type(line) == IF line.doc_type = "credit_note" THEN "C" ELSE "D"

\* line.get("reason", ...): the lines carry no reason
note_reason(line) ==
    IF note_type(line) = "C" THEN "Sales Return" ELSE "Price Difference"

\* CompleteGSTR1Generator.generate_cdnr
generate_cdnr(invoice_lines, use_gemini) ==
    LET lines_cdnr == enhanced(gemini_enhance_credit_note_data, use_gemini,
                               cdnr_lines(invoice_lines))
        Ctin(line) == upper(strip(line.gstin_uin))
        Note(line) ==
            [ntty    |-> note_type(line),
             nt_num  |-> line.invoice_no_raw,
             nt_dt   |-> format_date(line.invoice_date),
             rsn     |-> note_reason(line),
             p_gst   |-> "Y",
             pos     |-> line.place_of_supply_code,
             rchrg   |-> "N",
             inv_typ |-> "R",
             val     |-> format_for_json(parse_money(line.taxable_value)),
             itms    |-> aggregate_by_rate(<<line>>)]
        Buyer(ctin) ==
            [ctin |-> ctin, nt |-> SeqMap(Note, group_lines(Ctin, lines_cdnr, ctin))]
    IN  SeqMap(Buyer, group_keys(Ctin, lines_cdnr))

\* CompleteGSTR1Generator.generate_cdnur
generate_cdnur(invoice_lines, use_gemini) ==
    LET lines_cdnur == enhanced(gemini_enhance_credit_note_data, use_gemini,
                                cdnur_lines(invoice_lines))
        Note(line) ==
            [ntty   |-> note_type(line),
             nt_num |-> line.invoice_no_raw,
             nt_dt  |-> format_date(line.invoice_date),
             rsn    |-> note_reason(line),
             p_gst  |-> "Y",
             pos    |-> line.place_of_supply_code,
             typ    |-> ecommerce_type(line),
             val    |-> format_for_json(parse_money(line.taxable_value)),
             itms   |-> aggregate_by_rate(<<line>>)]
    IN  SeqMap(Note, lines_cdnur)

\* the lines generate_exp reports
exp_lines(invoice_lines) ==
    SelectSeq(invoice_lines, LAMBDA line :
        line.is_export /\ line.export_type = "WPAY" /\ line.doc_type = "tax_invoice")

\* CompleteGSTR1Generator.generate_exp; the lines carry no shipping details
generate_exp(invoice_lines, use_gemini) ==
    LET lines_exp == enhanced(gemini_enhance_export_data, use_gemini,
                              exp_lines(invoice_lines))
        Inum(line) == line.invoice_no_norm
        Export(inum) ==
            LET header == invoice_header(group_lines(Inum, lines_exp, inum))
            IN  [ex_tp   |-> "WPAY",
                 inum    |-> header.inum,
                 idt     |-> header.idt,
                 val     |-> header.val,
                 sbpcode |-> "",
                 sbnum   |-> "",
                 sbdt    |-> <<>>,
                 itms    |-> header.itms]
    IN  SeqMap(Export, group_keys(Inum, lines_exp))

\* the lines generate_at reports
at_lines(invoice_lines) ==
    SelectSeq(invoice_lines, LAMBDA line :
        line.is_advance_payment /\ line.doc_type = "advance_receipt")

\* the lines generate_atadj reports
atadj_lines(invoice_lines) ==
    SelectSeq(invoice_lines, LAMBDA line :
        line.is_advance_adjustment /\ line.doc_type = "advance_adjustment")

\* the aggregation generate_at and generate_atadj share: one entry per
\* (pos, sply_ty, rt), in the order the keys first appear
aggregate_advances(lines_adv) ==
    LET Key(line) ==
            [pos |-> line.place_of_supply_code, sply_ty |-> supply_type(line),
             rt |-> line.gst_rate]
        Entry(key) ==
            LET lines == group_lines(Key, lines_adv, key)
            IN  [pos     |-> key.pos,
                 sply_ty |-> key.sply_ty,
                 rt      |-> key.rt,
                 ad_amt  |-> format_for_json(parse_money(sum_taxable_value(lines))),
                 iamt    |-> format_for_json(DecPaise(sum_igst(lines))),
                 camt    |-> format_for_json(DecPaise(sum_cgst(lines))),
                 samt    |-> format_for_json(DecPaise(sum_sgst(lines))),
                 csamt   |-> format_for_json(DecPaise(ZERO))]
    IN  SeqMap(Entry, group_keys(Key, lines_adv))

\* CompleteGSTR1Generator.generate_at
generate_at(invoice_lines, use_gemini) == aggregate_advances(at_lines(invoice_lines))

\* CompleteGSTR1Generator.generate_atadj
generate_atadj(invoice_lines, use_gemini) == aggregate_advances(atadj_lines(invoice_lines))

\* the lines generate_exemp reports
exemp_lines(invoice_lines) ==
    SelectSeq(invoice_lines, LAMBDA line :
        line.gst_rate = 0 \/ line.is_exempted \/ line.is_nil_rated \/ line.is_non_gst)

exemp_supply_type(line) ==
    IF has_gstin(line)
    THEN (IF line.is_intra_state THEN "INTRB2B" ELSE "INTERB2B")
    ELSE (IF line.is_intra_state THEN "INTRB2C" ELSE "INTERB2C")

\* CompleteGSTR1Generator.generate_exemp
generate_exemp(invoice_lines, use_gemini) ==
    LET lines_exemp == exemp_lines(invoice_lines)
        IsNil(line) == line.is_nil_rated \/ line.gst_rate = 0
        IsExpt(line) == ~IsNil(line) /\ line.is_exempted
        IsNgsup(line) == ~IsNil(line) /\ ~line.is_exempted /\ line.is_non_gst
        Entry(sply_ty) ==
            LET lines == group_lines(exemp_supply_type, lines_exemp, sply_ty)
            IN  [sply_ty   |-> sply_ty,
                 nil_amt   |-> format_for_json(parse_money(
                                    sum_taxable_value(SelectSeq(lines, IsNil)))),
                 expt_amt  |-> format_for_json(parse_money(
                                    sum_taxable_value(SelectSeq(lines, IsExpt)))),
                 ngsup_amt |-> format_for_json(parse_money(
                                    sum_taxable_value(SelectSeq(lines, IsNgsup))))]
    IN  SeqMap(Entry, group_keys(exemp_supply_type, lines_exemp))

\* CompleteGSTR1Generator.generate_hsn; the lines carry no description, uqc
\* or quantity, and their hsn codes have no surrounding blanks
generate_hsn(invoice_lines, use_gemini) ==
    LET hsn_lines == enhanced(gemini_validate_hsn_codes, use_gemini,
                              SelectSeq(invoice_lines, LAMBDA line : line.hsn_code # ""))
        Hsn(line) == line.hsn_code
        codes == sort_by(LAMBDA hsn : <<TextRank(hsn)>>, group_keys(Hsn, hsn_lines))
        Entry(num) ==
            LET lines == group_lines(Hsn, hsn_lines, codes[num])
            IN  [num    |-> num,
                 hsn_sc |-> codes[num],
                 desc   |-> "",
                 uqc    |-> "OTH",
                 qty    |-> format_for_json(DecPaise(ZERO)),
                 val    |-> format_for_json(parse_money(sum_taxable_value(lines))),
                 txval  |-> format_for_json(parse_money(sum_taxable_value(lines))),
                 iamt   |-> format_for_json(DecPaise(sum_igst(lines))),
                 camt   |-> format_for_json(DecPaise(sum_cgst(lines))),
                 samt   |-> format_for_json(DecPaise(sum_sgst(lines))),
                 csamt  |-> format_for_json(DecPaise(ZERO))]
    IN  [data |-> [num \in DOMAIN codes |-> Entry(num)]]

\* CompleteGSTR1Generator._map_doc_type_to_portal
map_doc_type_to_portal(doc_type) ==
    CASE doc_type = "tax_invoice" -> "Invoices for outward supply"
      [] doc_type = "credit_note" -> "Credit Note"
      [] doc_type = "debit_note" -> "Debit Note"
      [] doc_type = "delivery_challan" -> "Delivery Challan for job work"
      [] doc_type = "refund_voucher" -> "Refund Voucher"
      [] doc_type = "receipt_voucher" -> "Receipt Voucher"
      [] OTHER -> "Invoices for outward supply"

doc_type_order ==
    <<"Invoices for outward supply",
      "Invoices for inward supply from unregistered person",
      "Revised Invoice", "Debit Note", "Credit Note", "Receipt Voucher",
      "Payment Voucher", "Refund Voucher", "Delivery Challan for job work",
      "Delivery Challan for supply on approval",
      "Delivery Challan in case of liquid gas",
      "Delivery Challan in case of others">>

\* CompleteGSTR1Generator.generate_doc_issue
generate_doc_issue(ranges) ==
    LET Portal(doc_range) == map_doc_type_to_portal(doc_range.doc_type)
        present == SelectSeq(doc_type_order, LAMBDA doc_typ :
                        \E i \in DOMAIN ranges : Portal(ranges[i]) = doc_typ)
        Group(doc_num) ==
            LET group == group_lines(Portal, ranges, present[doc_num])
                Doc(num) ==
                    [num       |-> num,
                     from      |-> group[num].doc_from,
                     to        |-> group[num].doc_to,
                     totnum    |-> group[num].expected_count,
                     cancel    |-> group[num].cancelled_count,
                     net_issue |-> group[num].found_count]
            IN  [doc_num |-> doc_num,
                 doc_typ |-> present[doc_num],
                 docs    |-> [num \in DOMAIN group |-> Doc(num)]]
    IN  [doc_det |-> [doc_num \in DOMAIN present |-> Group(doc_num)]]

(***************************************************************************)
(* The AI service (gemini_service.py) as the generator sees it             *)
(***************************************************************************)
\* what the model may answer: a JSON object with or without the expected
\* keys, a JSON array, plain text, or nothing because the call (or the dump
\* of its input) fails
GeminiReplies ==
    {[kind |-> "object",
      body |-> [validation_status |-> "warning", issues_found |-> <<"issue1">>,
                recommendations |-> <<"rec1">>, compliance_score |-> 95]],
     [kind |-> "array", body |-> [summary |-> ""]],
     [kind |-> "text", body |-> [summary |-> ""]],
     [kind |-> "unavailable", body |-> [summary |-> ""]]}

\* dict.get(key, default)
dict_get(dict, key, default) == IF key \in DOMAIN dict THEN dict[key] ELSE default

\* GeminiService.validate_gst_calculations: json.dumps of the summary or the
\* call to the model may raise, which gives the "unknown" dict; unparseable
\* text gives a "pass" dict; parsed JSON is returned as it is
validate_gst_calculations(serializable, reply) ==
    IF ~serializable \/ reply.kind = "unavailable"
    THEN [is_dict |-> TRUE,
          dict |-> [validation_status |-> "unknown", error |-> "error"]]
    ELSE IF reply.kind = "text"
    THEN [is_dict |-> TRUE,
          dict |-> [validation_status |-> "pass", summary |-> "text",
                    note |-> "AI provided text analysis"]]
    ELSE [is_dict |-> reply.kind = "object", dict |-> reply.body]

\* a variant that hands back the lines after the first
gemini_validate_invoice_data_rest(invoice_lines, serializable, reply) ==
    Tail(invoice_lines)

\* CompleteGSTR1Generator._gemini_validate_invoice_data: the answer is only
\* logged, and a failure of validation.get is caught
gemini_validate_invoice_data(invoice_lines, serializable, reply) ==
    LET validation == validate_gst_calculations(serializable, reply)
    IN  IF validation.is_dict THEN invoice_lines ELSE invoice_lines

\* CompleteGSTR1Generator._gemini_validate_gstr1: total_taxable is a Decimal,
\* which json.dumps rejects, unless there are no lines
gemini_validate_gstr1(invoice_lines, reply) ==
    LET validation == validate_gst_calculations(invoice_lines = <<>>, reply)
    IN  IF validation.is_dict
        THEN [status          |-> dict_get(validation.dict, "validation_status", "unknown"),
              issues          |-> dict_get(validation.dict, "issues_found", <<>>),
              recommendations |-> dict_get(validation.dict, "recommendations", <<>>),
              compliance_score |-> dict_get(validation.dict, "compliance_score", 0)]
        ELSE [status |-> "unknown", error |-> "'list' object has no attribute 'get'"]

SellerGstin == "27AABCE1234F1Z5"

FilingPeriod == "012025"

HeaderKeys == {"gstin", "fp", "gt", "cur_gt"}

\* the sections whose value is a dict, which is never empty
DictSections == {"hsn", "doc_issue"}

\* generate_complete_gstr1 from the header and the sections on: a section
\* is added when it is not empty, the validation report when there is one
gstr1_data(header, sections, validation_report) ==
    LET non_empty ==
            {key \in DOMAIN sections :
                IF key \in DictSections THEN TRUE ELSE sections[key] # <<>>}
    IN  [key \in HeaderKeys \cup non_empty \cup DOMAIN validation_report |->
            IF key \in HeaderKeys THEN header[key]
            ELSE IF key \in DOMAIN validation_report THEN validation_report[key]
                 ELSE sections[key]]

\* CompleteGSTR1Generator.generate_complete_gstr1; ai = [first, last]: the
\* replies of the service to the two validation calls
generate_complete_gstr1(lines_in, ranges, use_gemini, ai) ==
    LET validated_lines ==
            IF use_gemini /\ lines_in # <<>>
            THEN gemini_validate_invoice_data(lines_in, TRUE, ai.first)
            ELSE lines_in
        invoice_lines == IF validated_lines # <<>> THEN validated_lines ELSE lines_in
    IN  gstr1_data(
            [gstin  |-> SellerGstin,
             fp     |-> FilingPeriod,
             gt     |-> 0,
             cur_gt |-> format_for_json(parse_money(sum_taxable_value(invoice_lines)))],
            [b2b    |-> generate_b2b(invoice_lines, use_gemini),
             b2cl   |-> generate_b2cl(invoice_lines, use_gemini),
             b2cs   |-> generate_b2cs(invoice_lines, use_gemini),
             b2csa  |-> <<>>,
             cdnr   |-> generate_cdnr(invoice_lines, use_gemini),
             cdnur  |-> generate_cdnur(invoice_lines, use_gemini),
             cdnra  |-> <<>>,
             cdnura |-> <<>>,
             exp    |-> generate_exp(invoice_lines, use_gemini),
             expa   |-> <<>>,
             at     |-> generate_at(invoice_lines, use_gemini),
             ata    |-> <<>>,
             atadj  |-> generate_atadj(invoice_lines, use_gemini),
             atadja |-> <<>>,
             exemp  |-> generate_exemp(invoice_lines, use_gemini),
             hsn    |-> generate_hsn(invoice_lines, use_gemini),
             txpd   |-> <<>>,
             txpda  |-> <<>>,
             doc_issue |-> generate_doc_issue(ranges)],
            IF use_gemini
            THEN "_validation" :> gemini_validate_gstr1(invoice_lines, ai.last)
            ELSE <<>>)

(***************************************************************************)
(* Generation calls                                                        *)
(***************************************************************************)
\* number of invoice lines stored for the upload
MaxLines == 2

Rupees(n) == n * 1000

AsExport(line) == [line EXCEPT !.is_export = TRUE, !.export_type = "WPAY"]

AsAdvance(line) ==
    [line EXCEPT !.is_advance_payment = TRUE, !.doc_type = "advance_receipt"]

\* registered and unregistered buyers, tax ids of 3, 15 and 16 characters,
\* invoices, credit and debit notes, an export and an advance, rates 0, 5
\* and 18, a two-line invoice of 120000 + 180000, a one-line invoice of
\* 300000 and a return of -300000
LineUniverse ==
    {CanonicalLine(<<"A", "1">>, "tax_invoice", GSTIN_A, "29", Rupees(1000), 1800, "1006"),
     CanonicalLine(<<"a", "1">>, "tax_invoice", GSTIN_B, "27", Rupees(200) + 5, 0, "8517"),
     CanonicalLine(<<"A", "3">>, "tax_invoice", GSTIN_LONG, "29", Rupees(1000), 1800, ""),
     CanonicalLine(<<"B", "1">>, "tax_invoice", NoGstin, "29", Rupees(120000), 1800, ""),
     CanonicalLine(<<"B", "1">>, "tax_invoice", NoGstin, "29", Rupees(180000), 500, ""),
     CanonicalLine(<<"B", "2">>, "tax_invoice", NoGstin, "27", Rupees(300000), 1800, ""),
     CanonicalLine(<<"R", "1">>, "tax_invoice", GSTIN_SHORT, "27", Rupees(-300000), 1800, ""),
     CanonicalLine(<<"C", "1">>, "credit_note", GSTIN_A, "29", Rupees(-500), 1800, ""),
     CanonicalLine(<<"C", "2">>, "credit_note", NoGstin, "27", Rupees(-100), 0, ""),
     CanonicalLine(<<"D", "1">>, "debit_note", GSTIN_LONG, "29", Rupees(100), 1800, ""),
     AsExport(CanonicalLine(<<"E", "1">>, "tax_invoice", NoGstin, "29", Rupees(5000), 1800, "")),
     AsAdvance(CanonicalLine(<<"V", "1">>, "tax_invoice", NoGstin, "27", Rupees(700), 1800, ""))}

\* within one generation the service answers both validation calls alike
AiOutcomes == {[first |-> reply, last |-> reply] : reply \in GeminiReplies}

\* use_gemini = False: the service is not called
NoAi == CHOOSE ai \in AiOutcomes : ai.first.kind = "unavailable" /\ ai.last.kind = "unavailable"

GenInit ==
    /\ TaxIdle
    /\ RoundIdle
    /\ RangeIdle
    /\ IntakeIdle
    /\ upload_lines = <<>>
    /\ gen_call = NoCall
    /\ gstr1_complete = <<>>
    /\ gstr1_export = <<>>
    /\ gen_pc = "collect"

AddLine ==
    /\ gen_pc = "collect"
    /\ Len(upload_lines) < MaxLines
    /\ \E line \in LineUniverse : upload_lines' = Append(upload_lines, line)
    /\ UNCHANGED <<gen_call, gstr1_complete, gstr1_export, gen_pc,
                   tax_vars, round_vars, range_vars, intake_vars>>

\* one call of CompleteGSTR1Generator.generate_complete_gstr1 on the stored
\* lines and their ranges, as generate_gstr1_json makes it.  With no lines
\* the sum behind cur_gt is the int 0, which round_decimal cannot quantize:
\* the call raises and returns nothing.
GenerateComplete ==
    /\ gen_pc = "collect"
    /\ \E use_gemini \in BOOLEAN, ai \in AiOutcomes :
        /\ use_gemini \/ ai = NoAi
        /\ gen_call' = [generator |-> "complete", use_gemini |-> use_gemini,
                        reply |-> IF use_gemini THEN ai.first.kind ELSE "none"]
        /\ IF upload_lines = <<>>
           THEN /\ gstr1_complete' = gstr1_complete
                /\ gen_pc' = "raised"
           ELSE /\ gstr1_complete' =
                        generate_complete_gstr1(upload_lines,
                            detect_ranges(UploadId, upload_lines).ranges, use_gemini, ai)
                /\ gen_pc' = "generated"
    /\ UNCHANGED <<upload_lines, gstr1_export, tax_vars, round_vars, range_vars, intake_vars>>

(***************************************************************************)
(* SchemaDriverGSTR1Generator (gstr1_generator_schema_driven.py)           *)
(***************************************************************************)
SchemaVersion == "3.1.6"

\* differences below this many thousandths of a rupee count as reconciled
ReconcileToleranceMills == 500

\* the same tolerance in paise
ReconcileTolerancePaise == 50

\* SchemaDriverGSTR1Generator._format_date
schema_format_date(date_value) ==
    IF date_value = <<>> THEN <<>>
    ELSE IF Len(date_value) = 3
         THEN <<date_value[3], date_value[2], date_value[1]>>
         ELSE date_value

\* not line.get("gstin_uin")
schema_is_unregistered(line) == line.gstin_uin = <<>>

schema_invoice_header(inv_lines) ==
    LET first_line == inv_lines[1]
    IN  [inum  |-> first_line.invoice_no_raw,
         idt   |-> schema_format_date(first_line.invoice_date),
         val   |-> format_for_json(parse_money(sum_taxable_value(inv_lines))),
         itms  |-> aggregate_by_rate(inv_lines)]

\* SchemaDriverGSTR1Generator.generate_b2b
schema_generate_b2b(invoice_lines) ==
    LET lines_b2b == b2b_lines(invoice_lines)
        Ctin(line) == strip(line.gstin_uin)
        Inum(line) == line.invoice_no_norm
        Buyer(ctin) ==
            LET lines == group_lines(Ctin, lines_b2b, ctin)
                Invoice(inum) ==
                    LET inv_lines == group_lines(Inum, lines, inum)
                        first_line == inv_lines[1]
                        header == schema_invoice_header(inv_lines)
                    IN  [inum    |-> header.inum,
                         idt     |-> header.idt,
                         val     |-> header.val,
                         pos     |-> first_line.place_of_supply_code,
                         rchrg   |-> IF first_line.is_reverse_charge THEN "Y" ELSE "N",
                         inv_typ |-> "R",
                         itms    |-> header.itms]
            IN  [ctin |-> ctin, inv |-> SeqMap(Invoice, group_keys(Inum, lines))]
    IN  SeqMap(Buyer, group_keys(Ctin, lines_b2b))

\* the tax-invoice lines without any tax id
schema_b2c_lines(invoice_lines) ==
    SelectSeq(invoice_lines, LAMBDA line :
        schema_is_unregistered(line) /\ line.doc_type = "tax_invoice")

\* total_val > Decimal("250000") over the invoice of the line
schema_is_large_invoice(invoice_lines, line) ==
    sum_taxable_value(group_lines(LAMBDA other : other.invoice_no_norm,
                                  schema_b2c_lines(invoice_lines),
                                  line.invoice_no_norm)) > B2CLThreshold

schema_b2cl_lines(invoice_lines) ==
    LET Inum(line) == line.invoice_no_norm
        candidates == schema_b2c_lines(invoice_lines)
        Group(inum) ==
            LET lines == group_lines(Inum, candidates, inum)
            IN  IF schema_is_large_invoice(invoice_lines, lines[1]) THEN lines ELSE <<>>
    IN  Flatten(SeqMap(Group, group_keys(Inum, candidates)))

schema_b2cs_lines(invoice_lines) ==
    LET Inum(line) == line.invoice_no_norm
        candidates == schema_b2c_lines(invoice_lines)
        Group(inum) ==
            LET lines == group_lines(Inum, candidates, inum)
            IN  IF schema_is_large_invoice(invoice_lines, lines[1]) THEN <<>> ELSE lines
    IN  Flatten(SeqMap(Group, group_keys(Inum, candidates)))

\* SchemaDriverGSTR1Generator.generate_b2cl
schema_generate_b2cl(invoice_lines) ==
    LET lines_b2cl == schema_b2cl_lines(invoice_lines)
        Pos(line) == line.place_of_supply_code
        Inum(line) == line.invoice_no_norm
        State(pos) ==
            LET lines == group_lines(Pos, lines_b2cl, pos)
                Invoice(inum) == schema_invoice_header(group_lines(Inum, lines, inum))
            IN  [pos |-> pos, inv |-> SeqMap(Invoice, group_keys(Inum, lines))]
    IN  SeqMap(State, group_keys(Pos, lines_b2cl))

\* SchemaDriverGSTR1Generator.generate_b2cs
schema_generate_b2cs(invoice_lines) ==
    LET lines_b2cs == schema_b2cs_lines(invoice_lines)
        Key(line) ==
            [pos |-> line.place_of_supply_code, rt |-> line.gst_rate,
             typ |-> ecommerce_type(line)]
        Entry(key) ==
            LET lines == group_lines(Key, lines_b2cs, key)
            IN  [pos   |-> key.pos,
                 rt    |-> key.rt,
                 typ   |-> key.typ,
                 txval |-> format_for_json(parse_money(sum_taxable_value(lines))),
                 iamt  |-> format_for_json(DecPaise(sum_igst(lines))),
                 camt  |-> format_for_json(DecPaise(sum_cgst(lines))),
                 samt  |-> format_for_json(DecPaise(sum_sgst(lines))),
                 csamt |-> format_for_json(DecPaise(ZERO))]
        SortKey(x) == <<TextRank(x.pos), x.rt>>
    IN  sort_by(SortKey, SeqMap(Entry, group_keys(Key, lines_b2cs)))

\* the lines SchemaDriverGSTR1Generator.generate_cdnur reports
schema_cdnur_lines(invoice_lines) ==
    SelectSeq(invoice_lines, LAMBDA line : schema_is_unregistered(line) /\ IsNote(line))

\* SchemaDriverGSTR1Generator.generate_cdnr
schema_generate_cdnr(invoice_lines) ==
    LET lines_cdnr == cdnr_lines(invoice_lines)
        Ctin(line) == strip(line.gstin_uin)
        Note(line) ==
            [nt_num |-> line.invoice_no_raw,
             nt_dt  |-> schema_format_date(line.invoice_date),
             ntty   |-> note_type(line),
             pos    |-> line.place_of_supply_code,
             rchrg  |-> "N",
             val    |-> format_for_json(parse_money(line.taxable_value)),
             itms   |-> aggregate_by_rate(<<line>>)]
        Buyer(ctin) ==
            [ctin |-> ctin, nt |-> SeqMap(Note, group_lines(Ctin, lines_cdnr, ctin))]
    IN  SeqMap(Buyer, group_keys(Ctin, lines_cdnr))

\* SchemaDriverGSTR1Generator.generate_cdnur
schema_generate_cdnur(invoice_lines) ==
    LET Note(line) ==
            [nt_num |-> line.invoice_no_raw,
             nt_dt  |-> schema_format_date(line.invoice_date),
             ntty   |-> note_type(line),
             pos    |-> line.place_of_supply_code,
             typ    |-> ecommerce_type(line),
             val    |-> format_for_json(parse_money(line.taxable_value)),
             itms   |-> aggregate_by_rate(<<line>>)]
    IN  SeqMap(Note, schema_cdnur_lines(invoice_lines))

\* SchemaDriverGSTR1Generator.generate_hsn: the rows of the complete
\* generator's summary, as a plain list
schema_generate_hsn(invoice_lines) == generate_hsn(invoice_lines, FALSE).data

\* SchemaDriverGSTR1Generator._map_doc_type_to_portal
schema_map_doc_type_to_portal(doc_type) ==
    CASE doc_type = "tax_invoice" -> "Invoices for outward supply"
      [] doc_type = "credit_note" -> "Credit Notes"
      [] doc_type = "debit_note" -> "Debit Notes"
      [] doc_type = "delivery_challan" -> "Delivery Challans"
      [] doc_type = "refund_voucher" -> "Refund Vouchers"
      [] doc_type = "receipt_voucher" -> "Receipt Vouchers"
      [] OTHER -> "Invoices for outward supply"

schema_doc_type_order ==
    <<"Invoices for outward supply", "Credit Notes", "Debit Notes",
      "Delivery Challans", "Refund Vouchers", "Receipt Vouchers">>

\* SchemaDriverGSTR1Generator.generate_doc_iss
schema_generate_doc_iss(ranges) ==
    LET Portal(doc_range) == schema_map_doc_type_to_portal(doc_range.doc_type)
        present == SelectSeq(schema_doc_type_order, LAMBDA doc_typ :
                        \E i \in DOMAIN ranges : Portal(ranges[i]) = doc_typ)
        Group(doc_num) ==
            LET group == group_lines(Portal, ranges, present[doc_num])
                Doc(num) ==
                    [num       |-> num,
                     from      |-> group[num].doc_from,
                     to        |-> group[num].doc_to,
                     totnum    |-> group[num].found_count,
                     cancel    |-> group[num].cancelled_count,
                     net_issue |-> group[num].found_count]
            IN  [doc_num |-> doc_num,
                 doc_typ |-> present[doc_num],
                 docs    |-> [num \in DOMAIN group |-> Doc(num)]]
    IN  [doc_num \in DOMAIN present |-> Group(doc_num)]

\* SchemaDriverGSTR1Generator.validate_gstr1: [warnings, errors]
validate_gstr1(export, invoice_lines) ==
    LET has_data ==
            \/ export.b2b # <<>> \/ export.b2cl # <<>> \/ export.b2cs # <<>>
            \/ export.cdnr # <<>> \/ export.cdnur # <<>> \/ export.hsn # <<>>
            \/ export.doc_iss # <<>>
        Warning(entry) ==
            [text |-> "B2CS entry with zero or negative taxable value", entry |-> entry]
    IN  [errors |->
            (IF export.gstin = "" THEN <<"GSTIN is required">> ELSE <<>>)
                \o (IF export.fp = "" THEN <<"Filing period is required">> ELSE <<>>),
         warnings |->
            (IF has_data THEN <<>>
             ELSE <<[text |-> "No data found in any section", entry |-> <<>>]>>)
                \o SeqMap(Warning, SelectSeq(export.b2cs, LAMBDA entry : entry.txval <= 0))]

\* the sums reconcile_totals forms before it formats them: an empty sum is
\* the int 0, which format_for_json cannot round
reconcile_raises(export, invoice_lines) == invoice_lines = <<>> \/ export.b2cs = <<>>

\* SchemaDriverGSTR1Generator.reconcile_totals, when it returns
reconcile_totals(export, invoice_lines) ==
    LET total_lines_txval == sum_taxable_value(invoice_lines)
        total_lines_tax ==
            SumSeq(SeqMap(LAMBDA line : line.computed_tax.tax_amount, invoice_lines))
        total_b2cs_txval == SumSeq(SeqMap(LAMBDA entry : entry.txval, export.b2cs))
        total_b2cs_tax ==
            SumSeq(SeqMap(LAMBDA entry : entry.iamt + entry.camt + entry.samt, export.b2cs))
        txval_diff == Abs(total_lines_txval - 10 * total_b2cs_txval)
        tax_diff == Abs(total_lines_tax - total_b2cs_tax)
    IN  [invoice_lines |->
            [taxable_value |-> format_for_json(parse_money(total_lines_txval)),
             tax |-> format_for_json(DecPaise(total_lines_tax))],
         b2cs_section |->
            [taxable_value |-> format_for_json(DecPaise(total_b2cs_txval)),
             tax |-> format_for_json(DecPaise(total_b2cs_tax))],
         differences |->
            [taxable_value |-> format_for_json(parse_money(txval_diff)),
             tax |-> format_for_json(DecPaise(tax_diff))],
         reconciled |->
            txval_diff < ReconcileToleranceMills /\ tax_diff < ReconcileTolerancePaise]

\* the GSTR1Export before validation and reconciliation
schema_export(invoice_lines, ranges) ==
    [upload_id |-> IF invoice_lines # <<>> THEN UploadId ELSE "",
     gstin     |-> SellerGstin,
     fp        |-> FilingPeriod,
     version   |-> SchemaVersion,
     b2b       |-> schema_generate_b2b(invoice_lines),
     b2cl      |-> schema_generate_b2cl(invoice_lines),
     b2cs      |-> schema_generate_b2cs(invoice_lines),
     cdnr      |-> schema_generate_cdnr(invoice_lines),
     cdnur     |-> schema_generate_cdnur(invoice_lines),
     exp       |-> <<>>,
     at        |-> <<>>,
     atadj     |-> <<>>,
     hsn       |-> schema_generate_hsn(invoice_lines),
     doc_iss   |-> schema_generate_doc_iss(ranges)]

\* SchemaDriverGSTR1Generator.generate_complete_gstr1 from the export on:
\* the validation results and the reconciliation report are added
schema_validated_export(export, invoice_lines) ==
    LET checked == validate_gstr1(export, invoice_lines)
    IN  [section \in DOMAIN export \cup
            {"validation_warnings", "validation_errors", "reconciliation_report"} |->
            CASE section = "validation_warnings" -> checked.warnings
              [] section = "validation_errors" -> checked.errors
              [] section = "reconciliation_report" -> reconcile_totals(export, invoice_lines)
              [] OTHER -> export[section]]

\* what a call leaves behind: when reconcile_totals raises, no export is
\* returned
schema_return(export) ==
    IF reconcile_raises(export, upload_lines)
    THEN /\ gstr1_export' = gstr1_export
         /\ gen_pc' = "raised"
    ELSE /\ gstr1_export' = schema_validated_export(export, upload_lines)
         /\ gen_pc' = "generated"

\* one call of SchemaDriverGSTR1Generator.generate_complete_gstr1 on the
\* stored lines and their ranges
GenerateSchemaDriven ==
    /\ gen_pc = "collect"
    /\ gen_call' = [generator |-> "schema_driven", use_gemini |-> FALSE, reply |-> "none"]
    /\ schema_return(schema_export(upload_lines,
                                   detect_ranges(UploadId, upload_lines).ranges))
    /\ UNCHANGED <<upload_lines, gstr1_complete, tax_vars, round_vars, range_vars, intake_vars>>

(***************************************************************************)
(* Section membership of the stored lines                                  *)
(***************************************************************************)
\* the sections that report invoice lines one by one or summed
LineSections == {"b2b", "b2cl", "b2cs", "cdnr", "cdnur", "exp", "at", "atadj", "exemp"}

\* the lines CompleteGSTR1Generator builds a section from
complete_section_lines(section, invoice_lines) ==
    CASE section = "b2b"   -> b2b_lines(invoice_lines)
      [] section = "b2cl"  -> b2cl_lines(invoice_lines)
      [] section = "b2cs"  -> b2cs_lines(invoice_lines)
      [] section = "cdnr"  -> cdnr_lines(invoice_lines)
      [] section = "cdnur" -> cdnur_lines(invoice_lines)
      [] section = "exp"   -> exp_lines(invoice_lines)
      [] section = "at"    -> at_lines(invoice_lines)
      [] section = "atadj" -> atadj_lines(invoice_lines)
      [] section = "exemp" -> exemp_lines(invoice_lines)

\* the lines SchemaDriverGSTR1Generator builds a section from; exp, at and
\* atadj are returned empty and there is no exemp section
schema_section_lines(section, invoice_lines) ==
    CASE section = "b2b"   -> b2b_lines(invoice_lines)
      [] section = "b2cl"  -> schema_b2cl_lines(invoice_lines)
      [] section = "b2cs"  -> schema_b2cs_lines(invoice_lines)
      [] section = "cdnr"  -> cdnr_lines(invoice_lines)
      [] section = "cdnur" -> schema_cdnur_lines(invoice_lines)
      [] OTHER             -> <<>>

\* the content of a section in the return of the last generation
Stored(section) ==
    LET returned == IF gen_call.generator = "complete" THEN gstr1_complete
                    ELSE gstr1_export
    IN  IF section \in DOMAIN returned THEN returned[section] ELSE <<>>

\* the sections of the last return that report the given stored line
SectionsOf(line) ==
    {section \in LineSections :
        /\ Stored(section) # <<>>
        /\ line \in SeqRange(IF gen_call.generator = "complete"
                             THEN complete_section_lines(section, upload_lines)
                             ELSE schema_section_lines(section, upload_lines))}

Generated == gen_pc = "generated"

\* C2: every line is reported in exactly one filing section.  After either
\* generator has returned, each stored line is reported in exactly one of
\* b2b, b2cl, b2cs, cdnr, cdnur, exp, at, atadj and exemp: in none it would
\* be dropped, in two its value would be counted twice.
C2_EachLineInExactlyOneSection ==
    Generated =>
        \A i \in DOMAIN upload_lines :
            Cardinality(SectionsOf(upload_lines[i])) = 1

\* a stored line as the normalizer writes it: a tax invoice that is no
\* export and no advance
NormalizedInvoiceLine(line) ==
    /\ line.doc_type = "tax_invoice"
    /\ ~line.is_export
    /\ ~line.is_advance_payment
    /\ ~line.is_advance_adjustment

\* C30: for every tax-invoice line, the gstr_section the normalizer recorded
\* on the line (b2b, b2cl or b2cs) is the section in which
\* CompleteGSTR1Generator reports that line, for single-line and multi-line
\* documents and for any tax id length: of the three invoice sections, the
\* line is reported in the recorded one and in no other.
InvoiceSectionsOf(line) == SectionsOf(line) \cap {"b2b", "b2cl", "b2cs"}

C30_RecordedSectionIsReportedSection ==
    (Generated /\ gen_call.generator = "complete") =>
        \A i \in DOMAIN upload_lines :
            NormalizedInvoiceLine(upload_lines[i]) =>
                InvoiceSectionsOf(upload_lines[i]) = {upload_lines[i].gstr_section}

(***************************************************************************)
(* Large and small invoices of unregistered buyers                         *)
(***************************************************************************)
\* the generator's test for a buyer without a registration
Unregistered(line) ==
    IF gen_call.generator = "complete" THEN is_unregistered(line)
    ELSE schema_is_unregistered(line)

\* positions of the stored tax-invoice lines of unregistered buyers
UnregisteredInvoiceLines ==
    {i \in DOMAIN upload_lines :
        upload_lines[i].doc_type = "tax_invoice" /\ Unregistered(upload_lines[i])}

\* positions of the unregistered-buyer lines of the document of line i
DocumentOf(i) ==
    {j \in UnregisteredInvoiceLines :
        upload_lines[j].invoice_no_norm = upload_lines[i].invoice_no_norm}

RECURSIVE TaxableOver(_)
TaxableOver(positions) ==
    IF positions = {} THEN 0
    ELSE LET i == CHOOSE j \in positions : TRUE
         IN  upload_lines[i].taxable_value + TaxableOver(positions \ {i})

\* the document numbers listed in the returned b2cl section, normalized
StoredLargeInvoices ==
    LET b2cl == Stored("b2cl")
    IN  UNION {{strip(upper(b2cl[s].inv[n].inum)) : n \in DOMAIN b2cl[s].inv} :
                    s \in DOMAIN b2cl}

\* C3: large versus small is decided per document.  After either generator
\* has returned, every tax-invoice line of an unregistered buyer is reported
\* in b2cl, and its document is listed there, exactly when the taxable
\* values of the unregistered-buyer lines sharing its normalized number sum
\* to more than 250000; otherwise it is reported in b2cs and its document is
\* not listed in b2cl.  Lines of one document are never split.
C3_DocumentLevelThreshold ==
    Generated =>
        \A i \in UnregisteredInvoiceLines :
            LET line == upload_lines[i]
                large == TaxableOver(DocumentOf(i)) > B2CLThreshold
            IN  /\ SectionsOf(line) \cap {"b2cl", "b2cs"} =
                        (IF large THEN {"b2cl"} ELSE {"b2cs"})
                /\ large <=> line.invoice_no_norm \in StoredLargeInvoices

\* a returned filing whose b2cl section lists a document of two lines, each
\* of them at or below the threshold
C3_Witness ==
    /\ Generated
    /\ gen_call.generator = "complete"
    /\ \E i, j \in UnregisteredInvoiceLines :
        /\ i # j
        /\ j \in DocumentOf(i)
        /\ upload_lines[i].taxable_value <= B2CLThreshold
        /\ upload_lines[j].taxable_value <= B2CLThreshold
        /\ "b2cl" \in SectionsOf(upload_lines[i])
        /\ "b2cl" \in SectionsOf(upload_lines[j])
        /\ upload_lines[i].invoice_no_norm \in StoredLargeInvoices

\* C10: a return is bucketed by the absolute value of its document total.
\* After CompleteGSTR1Generator has returned, a tax-invoice line of an
\* unregistered buyer is reported in b2cl exactly when the absolute value of
\* its document's total taxable value exceeds 250000, so a document summing
\* to less than -250000 is in b2cl like the document of the opposite sign.
C10_ReturnsBucketedByAbsoluteTotal ==
    (Generated /\ gen_call.generator = "complete") =>
        \A i \in UnregisteredInvoiceLines :
            (Abs(TaxableOver(DocumentOf(i))) > B2CLThreshold)
                <=> ("b2cl" \in SectionsOf(upload_lines[i]))

\* C9: credit and debit notes are reported in a note section and nowhere
\* else.  After either generator has returned, a stored credit-note or
\* debit-note line is reported in cdnr alone when its tax id is present and
\* exactly 15 characters long, and in cdnur alone otherwise.
C9_NotesOnlyInNoteSections ==
    Generated =>
        \A i \in DOMAIN upload_lines :
            LET line == upload_lines[i]
            IN  IsNote(line) =>
                    SectionsOf(line) =
                        (IF has_gstin(line) THEN {"cdnr"} ELSE {"cdnur"})

(***************************************************************************)
(* Input order and the AI service                                          *)
(***************************************************************************)
\* the orders the stored lines can be uploaded in
UploadOrders(lines) ==
    {[i \in DOMAIN lines |-> lines[p[i]]] :
        p \in {q \in [DOMAIN lines -> DOMAIN lines] :
                    \A i, j \in DOMAIN lines : q[i] = q[j] => i = j}}

OrderedSections == {"b2b", "b2cl", "b2cs", "cdnr", "cdnur"}

\* a section as the generator of the last call builds it from the lines
section_of(section, invoice_lines) ==
    IF gen_call.generator = "complete"
    THEN CASE section = "b2b"   -> generate_b2b(invoice_lines, gen_call.use_gemini)
           [] section = "b2cl"  -> generate_b2cl(invoice_lines, gen_call.use_gemini)
           [] section = "b2cs"  -> generate_b2cs(invoice_lines, gen_call.use_gemini)
           [] section = "cdnr"  -> generate_cdnr(invoice_lines, gen_call.use_gemini)
           [] section = "cdnur" -> generate_cdnur(invoice_lines, gen_call.use_gemini)
    ELSE CASE section = "b2b"   -> schema_generate_b2b(invoice_lines)
           [] section = "b2cl"  -> schema_generate_b2cl(invoice_lines)
           [] section = "b2cs"  -> schema_generate_b2cs(invoice_lines)
           [] section = "cdnr"  -> schema_generate_cdnr(invoice_lines)
           [] section = "cdnur" -> schema_generate_cdnur(invoice_lines)

\* C6: aggregation does not depend on the order of the lines.  After either
\* generator has returned, generating b2b, b2cl, b2cs, cdnr or cdnur from
\* any permutation of the stored lines gives the section that was returned:
\* same groups, same order, same header fields and amounts.
C6_SectionsIndependentOfOrder ==
    Generated =>
        \A section \in OrderedSections, lines \in UploadOrders(upload_lines) :
            section_of(section, lines) = Stored(section)

\* C7: the AI service does not change the filing.  When
\* CompleteGSTR1Generator has returned from a call with use_gemini = true,
\* whatever the service answered, the return has the keys of the return of
\* the call with use_gemini = false on the same lines plus _validation, and
\* the same value under every key other than _validation.
C7_SameFilingWithAndWithoutGemini ==
    (Generated /\ gen_call.generator = "complete" /\ gen_call.use_gemini) =>
        LET plain == generate_complete_gstr1(upload_lines,
                        detect_ranges(UploadId, upload_lines).ranges, FALSE, NoAi)
        IN  /\ DOMAIN gstr1_complete \ {"_validation"} = DOMAIN plain
            /\ \A key \in DOMAIN plain : gstr1_complete[key] = plain[key]

\* a filing of several lines returned with use_gemini = true after the
\* service answered with a parsed object, with sections and the validation
C7_Witness ==
    /\ Generated
    /\ gen_call.generator = "complete"
    /\ gen_call.use_gemini
    /\ gen_call.reply = "object"
    /\ Len(upload_lines) >= 2
    /\ "_validation" \in DOMAIN gstr1_complete
    /\ {"b2b", "b2cs"} \subseteq DOMAIN gstr1_complete

\* the warnings validate_gstr1 can give; neither is about reconciliation
ValidationTexts ==
    {"No data found in any section", "B2CS entry with zero or negative taxable value"}

\* C16: a reconciliation mismatch is surfaced as a warning.  After
\* SchemaDriverGSTR1Generator.generate_complete_gstr1 has returned an export
\* whose reconciliation report says reconciled = FALSE (a taxable-value or
\* tax difference is not below 0.50), validation_warnings of that export
\* holds a warning for the mismatch, that is one that is not a warning of
\* the section validation.
C16_MismatchIsWarned ==
    (/\ Generated
     /\ gen_call.generator = "schema_driven"
     /\ ~gstr1_export.reconciliation_report.reconciled) =>
        \E k \in DOMAIN gstr1_export.validation_warnings :
            gstr1_export.validation_warnings[k].text \notin ValidationTexts

\* the rows of a section of the document CompleteGSTR1Generator returned
SectionRows(key) ==
    CASE key = "hsn" -> gstr1_complete[key].data
      [] key = "doc_issue" -> gstr1_complete[key].doc_det
      [] OTHER -> gstr1_complete[key]

\* C23: in the document returned by
\* CompleteGSTR1Generator.generate_complete_gstr1 a section key is present
\* only when that section has at least one row; a section without rows,
\* hsn and doc_issue included, has no key.
C23_SectionKeyOnlyWithRows ==
    (Generated /\ gen_call.generator = "complete") =>
        \A key \in DOMAIN gstr1_complete \ (HeaderKeys \cup {"_validation"}) :
            SectionRows(key) # <<>>

GenNext == AddLine \/ GenerateComplete \/ GenerateSchemaDriven

SpecGen == GenInit /\ [][GenNext]_vars

====
